---- MODULE Spec2Model ----
(***************************************************************************)
(* Lineup generator of the shift-lineup application: interval partition,   *)
(* shift-period classification, position resolution, scoring, greedy       *)
(* assignment, the two capped optimizer passes, break flags and the        *)
(* closing lineup.                                                         *)
(*                                                                         *)
(* Conventions of the model:                                               *)
(*  - a time string "HH:MM" is the pair <<HH, MM>>;                        *)
(*  - a position string is the sequence of its '/'-separated parts, so     *)
(*    "secondary2/buns" is <<"secondary2", "buns">> and the label          *)
(*    "extra/support" is <<"extra", "support">>;                           *)
(*  - a JavaScript undefined/null is NoVal; an absent skill array is {},   *)
(*    an absent priority or table entry is 0, an absent isMinor is FALSE.   *)
(***************************************************************************)
EXTENDS Integers, Sequences, FiniteSets, TLC

NoVal == "undefined"

\* ------------------------------------------------------------------------
\* Generic sequence helpers (Array.prototype.filter / splice / stable sort)
\* ------------------------------------------------------------------------
RECURSIVE FilterSeq(_, _)
FilterSeq(s, keep) ==
  IF s = <<>> THEN <<>>
  ELSE IF keep[Head(s)] THEN <<Head(s)>> \o FilterSeq(Tail(s), keep)
       ELSE FilterSeq(Tail(s), keep)

RemoveAt(s, k) == SubSeq(s, 1, k - 1) \o SubSeq(s, k + 1, Len(s))

\* insertion of x into the key-sorted sequence s after every element whose
\* key is <= key(x): repeated over the input order this is a stable sort
RECURSIVE InsertByKey(_, _, _)
InsertByKey(s, x, key) ==
  IF s = <<>> THEN <<x>>
  ELSE IF key[Head(s)] <= key[x] THEN <<Head(s)>> \o InsertByKey(Tail(s), x, key)
       ELSE <<x>> \o s

RECURSIVE StableSortIdx(_, _)
\* the indices of idxs (a sequence) stably sorted by key (a function on them)
StableSortIdx(idxs, key) ==
  IF idxs = <<>> THEN <<>>
  ELSE InsertByKey(StableSortIdx(SubSeq(idxs, 1, Len(idxs) - 1), key),
                   idxs[Len(idxs)], key)

Iota(n) == [k \in 1..n |-> k]

SetMax(S) == CHOOSE x \in S : \A y \in S : y <= x
SetMin(S) == CHOOSE x \in S : \A y \in S : x <= y

\* ------------------------------------------------------------------------
\* Times
\* ------------------------------------------------------------------------
timeToMinutes(t) == t[1] * 60 + t[2]

minutesToTime(n) == <<n \div 60, n % 60>>

\* a boundary minute belongs to the earlier period
getShiftPeriodClosedRanges(t) ==
  LET timeInMinutes == t[1] * 60 + t[2] IN
  IF timeInMinutes >= 360 /\ timeInMinutes <= 630 THEN "morning"
  ELSE IF timeInMinutes > 630 /\ timeInMinutes <= 840 THEN "lunch"
  ELSE IF timeInMinutes > 840 /\ timeInMinutes <= 1020 THEN "midday"
  ELSE IF timeInMinutes > 1020 /\ timeInMinutes <= 1200 THEN "dinner"
  ELSE IF timeInMinutes > 1200 /\ timeInMinutes <= 1320 THEN "lateNight"
  ELSE NoVal

getShiftPeriod(t) ==
  LET timeInMinutes == t[1] * 60 + t[2] IN
  IF timeInMinutes >= 360 /\ timeInMinutes < 630 THEN "morning"
  ELSE IF timeInMinutes >= 630 /\ timeInMinutes < 840 THEN "lunch"
  ELSE IF timeInMinutes >= 840 /\ timeInMinutes < 1020 THEN "midday"
  ELSE IF timeInMinutes >= 1020 /\ timeInMinutes < 1200 THEN "dinner"
  ELSE IF timeInMinutes >= 1200 /\ timeInMinutes < 1320 THEN "lateNight"
  ELSE NoVal

\* sorted distinct start/end minute marks
getChangePoints(shiftAssignments) ==
  LET points == { timeToMinutes(shiftAssignments[k].startTime) : k \in DOMAIN shiftAssignments }
                \cup { timeToMinutes(shiftAssignments[k].endTime) : k \in DOMAIN shiftAssignments }
      RECURSIVE Asc(_)
      Asc(S) == IF S = {} THEN <<>> ELSE <<SetMin(S)>> \o Asc(S \ {SetMin(S)})
  IN Asc(points)

\* a window still counts at its end minute
getWorkingEmployeesClosedEnd(shiftAssignments, timeInMinutes) ==
  FilterSeq(shiftAssignments,
            [a \in { shiftAssignments[k] : k \in DOMAIN shiftAssignments } |->
               timeInMinutes >= timeToMinutes(a.startTime)
               /\ timeInMinutes <= timeToMinutes(a.endTime)])

getWorkingEmployees(shiftAssignments, timeInMinutes) ==
  FilterSeq(shiftAssignments,
            [a \in { shiftAssignments[k] : k \in DOMAIN shiftAssignments } |->
               timeInMinutes >= timeToMinutes(a.startTime)
               /\ timeInMinutes < timeToMinutes(a.endTime)])

\* ------------------------------------------------------------------------
\* Break flags.  hoursWorked = minutes / 60 is compared with 4.5, 4, 7.5, 7;
\* the division is monotone and exact at the four thresholds, so the
\* comparisons are those of 2 * minutes with 2 * 60 * threshold.
\* ------------------------------------------------------------------------
calculateBreakFlagsMinorAsAdult(employee, startTime, endTime) ==
  LET twiceMinutes == 2 * (timeToMinutes(endTime) - timeToMinutes(startTime)) IN
  IF twiceMinutes >= 900 THEN [needsBreak |-> TRUE, breakType |-> "required"]
  ELSE IF twiceMinutes >= 840 THEN [needsBreak |-> TRUE, breakType |-> "optional"]
  ELSE [needsBreak |-> FALSE, breakType |-> NoVal]

calculateBreakFlags(employee, startTime, endTime) ==
  LET twiceMinutes == 2 * (timeToMinutes(endTime) - timeToMinutes(startTime)) IN
  IF employee.isMinor = TRUE
  THEN IF twiceMinutes >= 540 THEN [needsBreak |-> TRUE, breakType |-> "required"]
       ELSE IF twiceMinutes >= 480 THEN [needsBreak |-> TRUE, breakType |-> "optional"]
       ELSE [needsBreak |-> FALSE, breakType |-> NoVal]
  ELSE IF twiceMinutes >= 900 THEN [needsBreak |-> TRUE, breakType |-> "required"]
       ELSE IF twiceMinutes >= 840 THEN [needsBreak |-> TRUE, breakType |-> "optional"]
       ELSE [needsBreak |-> FALSE, breakType |-> NoVal]

\* ------------------------------------------------------------------------
\* Position names
\* ------------------------------------------------------------------------
LeadLabel == <<"lead (floating)">>
BoosterLabel == <<"booster (floating)">>
TrainingLabel == <<"in training">>
ExtraLabel == <<"extra", "support">>
AvailableLabel == <<"available">>

\* String.prototype.includes on the names the model uses
IncludesLead(position) ==
  \E k \in DOMAIN position : position[k] \in {"lead (floating)", "lead", "buns (lead)"}

IncludesBooster(position) ==
  \E k \in DOMAIN position : position[k] \in {"booster (floating)"}

\* s.replace(' (lead)', '').replace(' (floating)', '') on one part
StripRoleSuffix(part) ==
  IF part = "lead (floating)" THEN "lead"
  ELSE IF part = "booster (floating)" THEN "booster"
  ELSE IF part = "buns (lead)" THEN "buns"
  ELSE part

defaultPositionPriorities(opt) ==
  CASE opt = "lead" -> 1
    [] opt = "breading" -> 2
    [] opt = "breader" -> 2
    [] opt = "machines" -> 3
    [] opt = "primary" -> 4
    [] opt = "secondary1" -> 5
    [] opt = "DT fries" -> 6
    [] opt = "secondary2" -> 7
    [] opt = "buns" -> 8
    [] opt = "FC fries" -> 9
    [] opt = "fries" -> 6
    [] opt = "breaks" -> 10
    [] opt = "hashbrowns" -> 7
    [] opt = "griddle" -> 7
    [] opt = "fileter" -> 4
    [] opt = "primary2" -> 5
    [] OTHER -> 0

checklistPositionPriority(basePosition) ==
  CASE basePosition = "buns" -> 1
    [] basePosition = "machines" -> 1
    [] basePosition = "secondary2" -> 2
    [] OTHER -> 0

\* pos.priority || 99: an unset priority is written 0 (0 is falsy as well)
PriorityOr99(p) == IF p = 0 THEN 99 ELSE p

\* ------------------------------------------------------------------------
\* Position Resolver
\* ------------------------------------------------------------------------
\* a catalog slot is [name, priority, timePeriods, requiresClosing]; a slot
\* without a timePeriods field carries NoPeriods, an empty array is {}
NoPeriods == { NoVal }

filterPositionsByTimePeriod(positions, shiftPeriod) ==
  FilterSeq(positions,
            [pos \in { positions[k] : k \in DOMAIN positions } |->
               LET timePeriods == IF pos.timePeriods = NoPeriods THEN {"all"} ELSE pos.timePeriods
               IN "all" \in timePeriods \/ shiftPeriod \in timePeriods])

\* an unset priority sorts as 0
SortByRawPriority(slots) ==
  LET order == StableSortIdx(Iota(Len(slots)),
                             [k \in 1..Len(slots) |-> slots[k].priority])
  IN [k \in 1..Len(slots) |-> slots[order[k]]]

\* the slots of a catalog stably sorted by a.priority || 99
SortByPriority(slots) ==
  LET order == StableSortIdx(Iota(Len(slots)),
                             [k \in 1..Len(slots) |-> PriorityOr99(slots[k].priority)])
  IN [k \in 1..Len(slots) |-> slots[order[k]]]

\* getPositionsForPeriod(...).positions; the null returned when there is no
\* catalog is written <<>> (the caller treats both alike)
getPositionsForPeriod(dbPositions, shiftPeriod) ==
  IF Len(dbPositions) = 0 THEN <<>>
  ELSE LET sortedPositions == SortByPriority(filterPositionsByTimePeriod(dbPositions, shiftPeriod))
       IN [k \in 1..Len(sortedPositions) |-> sortedPositions[k].name]

\* positionPriorityMap[pos.name] = pos.priority || 99, later slots overwrite
positionPriorityMap(dbPositions) ==
  [n \in { dbPositions[k].name : k \in DOMAIN dbPositions } |->
     LET last == SetMax({ k \in DOMAIN dbPositions : dbPositions[k].name = n })
     IN PriorityOr99(dbPositions[last].priority)]

\* the map is keyed by whole slot names and read with single parts
getPositionPriority(position, priorityMap) ==
  LET prio(opt) ==
        IF <<opt>> \in DOMAIN priorityMap THEN priorityMap[<<opt>>]
        ELSE PriorityOr99(defaultPositionPriorities(opt))
  IN SetMin({99} \cup { prio(position[k]) : k \in DOMAIN position })

IsMarker(p) == p = "checklist" \/ p = "precloser"

StripMarkers(pos) ==
  LET parts == FilterSeq(pos, [p \in { pos[k] : k \in DOMAIN pos } |-> ~IsMarker(p)])
  IN IF Len(parts) > 0 THEN parts ELSE pos

filteredPositions(positions) ==
  LET kept == FilterSeq(positions,
                [pos \in { positions[k] : k \in DOMAIN positions } |->
                   ~(\A k \in DOMAIN pos : IsMarker(pos[k]))])
  IN [k \in 1..Len(kept) |-> StripMarkers(kept[k])]

\* [...positionsToFill].map(...).sort((a, b) => a.priority - b.priority)
sortedPositionsOf(positions, priorityMap) ==
  LET fp == filteredPositions(positions)
      order == StableSortIdx(Iota(Len(fp)),
                             [k \in 1..Len(fp) |-> getPositionPriority(fp[k], priorityMap)])
  IN [k \in 1..Len(fp) |-> fp[order[k]]]

\* ------------------------------------------------------------------------
\* Scoring
\* ------------------------------------------------------------------------
EmpKey(e) ==
  IF e.employeeId # NoVal THEN e.employeeId
  ELSE IF e.id # NoVal THEN e.id ELSE e.name

\* only the first alternative of the slot is scored
BaseScoreFirstAlternative(employee, position) ==
  IF position[1] \in employee.bestPositions THEN 10
  ELSE IF position[1] \in employee.positions THEN 5
  ELSE 0

BaseScore(employee, position) ==
  SetMax({0} \cup { IF position[k] \in employee.bestPositions THEN 10
                    ELSE IF position[k] \in employee.positions THEN 5
                    ELSE 0 : k \in DOMAIN position })

ChecklistBonus(employee, position) ==
  LET hasChecklistSkill == "checklist" \in employee.positions
                           \/ "checklist" \in employee.bestPositions
      basePosition == position[1]
  IN IF hasChecklistSkill /\ checklistPositionPriority(basePosition) # 0
     THEN IF checklistPositionPriority(basePosition) = 1 THEN 15 ELSE 12
     ELSE 0

\* staying in place earns nothing
NoContinuityBonus(position, previousPosition) == 0

ContinuityBonus(position, previousPosition) ==
  IF previousPosition = NoVal THEN 0
  ELSE LET prevBase == StripRoleSuffix(previousPosition[1])
       IN IF (\E k \in DOMAIN position : position[k] = prevBase)
             \/ position = <<prevBase>>
          THEN 20 ELSE 0

scoreEmployeeForPosition(employee, position, boostChecklistPositions, previousPosition) ==
  BaseScore(employee, position)
  + (IF boostChecklistPositions THEN ChecklistBonus(employee, position) ELSE 0)
  + ContinuityBonus(position, previousPosition)

QualityOf(score) ==
  IF score >= 10 THEN "best" ELSE IF score >= 5 THEN "capable" ELSE "fallback"

IsSpecial(position) ==
  IncludesLead(position) \/ IncludesBooster(position)
  \/ position = TrainingLabel \/ position = ExtraLabel

\* ------------------------------------------------------------------------
\* Enrichment: { ...assignment, ...employee, name: assignment.name || employee.name }
\* ref is the position of the shift window in the request; it stands for the
\* identity of the JavaScript object.
\* ------------------------------------------------------------------------
Enrich(shifts, emps, k) ==
  LET a == shifts[k]
      found == { n \in DOMAIN emps : emps[n].id = a.employeeId }
      has == found # {}
      e == emps[SetMin(found)]
  IN [ref |-> k,
      employeeId |-> a.employeeId,
      id |-> IF has THEN e.id ELSE NoVal,
      name |-> IF a.name # NoVal THEN a.name ELSE IF has THEN e.name ELSE NoVal,
      positions |-> IF has THEN e.positions ELSE {},
      bestPositions |-> IF has THEN e.bestPositions ELSE {},
      isMinor |-> IF has THEN e.isMinor ELSE FALSE,
      isShiftLead |-> a.isShiftLead,
      isBooster |-> a.isBooster,
      isInTraining |-> a.isInTraining,
      startTime |-> a.startTime,
      endTime |-> a.endTime]

enrichedAssignmentsOf(shifts, emps) == [k \in 1..Len(shifts) |-> Enrich(shifts, emps, k)]

\* ------------------------------------------------------------------------
\* assignEmployeesToPositions: lead / booster / trainee removal
\* ------------------------------------------------------------------------
Reverse(s) == [k \in 1..Len(s) |-> s[Len(s) + 1 - k]]

\* the elements of s with the flag (a field name's value) set / not set
Flagged(s, flag) == FilterSeq(s, [x \in { s[k] : k \in DOMAIN s } |-> x[flag] = TRUE])

Unflagged(s, flag) == FilterSeq(s, [x \in { s[k] : k \in DOMAIN s } |-> x[flag] # TRUE])

Labelled(s, position, matchQuality) ==
  [k \in 1..Len(s) |-> [employee |-> s[k], position |-> position, matchQuality |-> matchQuality]]

\* the flags are tested in the order booster, lead: a worker flagged both ways
\* ends as a booster
RoleRemovalBoosterFirst(workingEmployees) ==
  LET rest1 == Unflagged(workingEmployees, "isBooster")
      rest2 == Unflagged(rest1, "isShiftLead")
      rest3 == Unflagged(rest2, "isInTraining")
  IN [assignments |->
        Labelled(Reverse(Flagged(rest1, "isShiftLead")), LeadLabel, "best")
        \o Labelled(Reverse(Flagged(workingEmployees, "isBooster")), BoosterLabel, "best")
        \o Labelled(Reverse(Flagged(rest2, "isInTraining")), TrainingLabel, "training"),
      unassigned |-> rest3]

\* the assignments pushed for the flagged workers and the pool that is left
RoleRemoval(workingEmployees) ==
  LET rest1 == Unflagged(workingEmployees, "isShiftLead")
      rest2 == Unflagged(rest1, "isBooster")
      rest3 == Unflagged(rest2, "isInTraining")
  IN [assignments |->
        Labelled(Reverse(Flagged(workingEmployees, "isShiftLead")), LeadLabel, "best")
        \o Labelled(Reverse(Flagged(rest1, "isBooster")), BoosterLabel, "best")
        \o Labelled(Reverse(Flagged(rest2, "isInTraining")), TrainingLabel, "training"),
      unassigned |-> rest3]

\* ------------------------------------------------------------------------
\* Greedy fill: one visit of a slot
\* ------------------------------------------------------------------------
PrevPositionOf(prev, employee) ==
  IF EmpKey(employee) \in DOMAIN prev THEN prev[EmpKey(employee)] ELSE NoVal

\* the picked worker stays in the pool (the splice is missing)
GreedyVisitResultNoSplice(asg, pool, position, prev) ==
  LET score(j) == scoreEmployeeForPosition(pool[j], position, TRUE, PrevPositionOf(prev, pool[j]))
      bestScore == SetMax({0} \cup { score(j) : j \in DOMAIN pool })
      bestIndex == SetMin({ j \in DOMAIN pool : score(j) = bestScore })
  IN IF bestScore > 0
     THEN [assignments |-> Append(asg, [employee |-> pool[bestIndex],
                                        position |-> position,
                                        matchQuality |-> QualityOf(BaseScore(pool[bestIndex], position))]),
           unassigned |-> pool]
     ELSE IF Len(pool) > 0
     THEN [assignments |-> Append(asg, [employee |-> Head(pool),
                                        position |-> position,
                                        matchQuality |-> "fallback"]),
           unassigned |-> Tail(pool)]
     ELSE [assignments |-> asg, unassigned |-> pool]

\* the quality is taken from the boosted score that won the slot
GreedyVisitResultBoostedQuality(asg, pool, position, prev) ==
  LET score(j) == scoreEmployeeForPosition(pool[j], position, TRUE, PrevPositionOf(prev, pool[j]))
      bestScore == SetMax({0} \cup { score(j) : j \in DOMAIN pool })
      bestIndex == SetMin({ j \in DOMAIN pool : score(j) = bestScore })
  IN IF bestScore > 0
     THEN [assignments |-> Append(asg, [employee |-> pool[bestIndex],
                                        position |-> position,
                                        matchQuality |-> QualityOf(bestScore)]),
           unassigned |-> RemoveAt(pool, bestIndex)]
     ELSE IF Len(pool) > 0
     THEN [assignments |-> Append(asg, [employee |-> Head(pool),
                                        position |-> position,
                                        matchQuality |-> "fallback"]),
           unassigned |-> Tail(pool)]
     ELSE [assignments |-> asg, unassigned |-> pool]

\* without the forced fallback: a slot nobody scores at stays empty
GreedyVisitResultNoFallback(asg, pool, position, prev) ==
  LET score(j) == scoreEmployeeForPosition(pool[j], position, TRUE, PrevPositionOf(prev, pool[j]))
      bestScore == SetMax({0} \cup { score(j) : j \in DOMAIN pool })
      bestIndex == SetMin({ j \in DOMAIN pool : score(j) = bestScore })
  IN IF bestScore > 0
     THEN [assignments |-> Append(asg, [employee |-> pool[bestIndex],
                                        position |-> position,
                                        matchQuality |-> QualityOf(BaseScore(pool[bestIndex], position))]),
           unassigned |-> RemoveAt(pool, bestIndex)]
     ELSE [assignments |-> asg, unassigned |-> pool]

\* among the workers with the best score the one latest in the pool is taken
GreedyVisitResultLastBest(asg, pool, position, prev) ==
  LET score(j) == scoreEmployeeForPosition(pool[j], position, TRUE, PrevPositionOf(prev, pool[j]))
      bestScore == SetMax({0} \cup { score(j) : j \in DOMAIN pool })
      bestIndex == SetMax({ j \in DOMAIN pool : score(j) = bestScore })
  IN IF bestScore > 0
     THEN [assignments |-> Append(asg, [employee |-> pool[bestIndex],
                                        position |-> position,
                                        matchQuality |-> QualityOf(BaseScore(pool[bestIndex], position))]),
           unassigned |-> RemoveAt(pool, bestIndex)]
     ELSE IF Len(pool) > 0
     THEN [assignments |-> Append(asg, [employee |-> Head(pool),
                                        position |-> position,
                                        matchQuality |-> "fallback"]),
           unassigned |-> Tail(pool)]
     ELSE [assignments |-> asg, unassigned |-> pool]

\* the new [assignments, unassigned] after the slot `position` was visited
GreedyVisitResult(asg, pool, position, prev) ==
  LET score(j) == scoreEmployeeForPosition(pool[j], position, TRUE, PrevPositionOf(prev, pool[j]))
      bestScore == SetMax({0} \cup { score(j) : j \in DOMAIN pool })
      bestIndex == SetMin({ j \in DOMAIN pool : score(j) = bestScore })
  IN IF bestScore > 0
     THEN [assignments |-> Append(asg, [employee |-> pool[bestIndex],
                                        position |-> position,
                                        matchQuality |-> QualityOf(BaseScore(pool[bestIndex], position))]),
           unassigned |-> RemoveAt(pool, bestIndex)]
     ELSE IF Len(pool) > 0
     THEN [assignments |-> Append(asg, [employee |-> Head(pool),
                                        position |-> position,
                                        matchQuality |-> "fallback"]),
           unassigned |-> Tail(pool)]
     ELSE [assignments |-> asg, unassigned |-> pool]

\* ------------------------------------------------------------------------
\* Optimizer passes: one iteration of the outer loop
\* ------------------------------------------------------------------------
SwapEmployees(asg, a, b, qa, qb) ==
  [k \in 1..Len(asg) |->
     IF k = a THEN [asg[a] EXCEPT !.employee = asg[b].employee, !.matchQuality = qa]
     ELSE IF k = b THEN [asg[b] EXCEPT !.employee = asg[a].employee, !.matchQuality = qb]
     ELSE asg[k]]

\* with equally many best members the pair is exchanged for a smaller total
shouldSwapLowerTotal(asg, a, b) ==
  LET scoreAatA == BaseScore(asg[a].employee, asg[a].position)
      scoreBatB == BaseScore(asg[b].employee, asg[b].position)
      scoreAatB == BaseScore(asg[a].employee, asg[b].position)
      scoreBatA == BaseScore(asg[b].employee, asg[a].position)
      currentBestCount == (IF scoreAatA >= 10 THEN 1 ELSE 0) + (IF scoreBatB >= 10 THEN 1 ELSE 0)
      swappedBestCount == (IF scoreAatB >= 10 THEN 1 ELSE 0) + (IF scoreBatA >= 10 THEN 1 ELSE 0)
  IN swappedBestCount > currentBestCount
     \/ (swappedBestCount = currentBestCount /\ scoreAatB + scoreBatA < scoreAatA + scoreBatB)

shouldSwap(asg, a, b) ==
  LET scoreAatA == BaseScore(asg[a].employee, asg[a].position)
      scoreBatB == BaseScore(asg[b].employee, asg[b].position)
      scoreAatB == BaseScore(asg[a].employee, asg[b].position)
      scoreBatA == BaseScore(asg[b].employee, asg[a].position)
      currentBestCount == (IF scoreAatA >= 10 THEN 1 ELSE 0) + (IF scoreBatB >= 10 THEN 1 ELSE 0)
      swappedBestCount == (IF scoreAatB >= 10 THEN 1 ELSE 0) + (IF scoreBatA >= 10 THEN 1 ELSE 0)
  IN swappedBestCount > currentBestCount
     \/ (swappedBestCount = currentBestCount /\ scoreAatB + scoreBatA > scoreAatA + scoreBatB)

PassAPairs(asg) ==
  { p \in (DOMAIN asg) \X (DOMAIN asg) :
      /\ p[1] < p[2]
      /\ ~IsSpecial(asg[p[1]].position)
      /\ ~IsSpecial(asg[p[2]].position)
      /\ shouldSwap(asg, p[1], p[2]) }

\* the first pair of a set of index pairs in scan order (outer index, then inner)
FirstPair(pairs) ==
  LET a == SetMin({ p[1] : p \in pairs })
  IN <<a, SetMin({ p[2] : p \in { q \in pairs : q[1] = a } })>>

\* [improved, assignments] after one iteration of the Pass A loop
PassAIteration(asg) ==
  LET pairs == PassAPairs(asg) IN
  IF pairs = {} THEN [improved |-> FALSE, assignments |-> asg, swapped |-> << >>]
  ELSE LET p == FirstPair(pairs)
           a == p[1]
           b == p[2]
       IN [improved |-> TRUE,
           swapped |-> << p >>,
           assignments |-> SwapEmployees(asg, a, b,
                             QualityOf(BaseScore(asg[b].employee, asg[a].position)),
                             QualityOf(BaseScore(asg[a].employee, asg[b].position)))]

PassBPairs(asg) ==
  { p \in (DOMAIN asg) \X (DOMAIN asg) :
      /\ ~IsSpecial(asg[p[1]].position)
      /\ asg[p[1]].matchQuality # "best"
      /\ p[1] # p[2]
      /\ asg[p[2]].position = ExtraLabel
      /\ BaseScore(asg[p[2]].employee, asg[p[1]].position) >= 10 }

\* the displaced worker keeps the quality the slot had
PassBIterationKeepsQuality(asg) ==
  LET pairs == PassBPairs(asg) IN
  IF pairs = {} THEN [improved |-> FALSE, assignments |-> asg, swapped |-> << >>]
  ELSE LET p == FirstPair(pairs)
       IN [improved |-> TRUE,
           swapped |-> << p >>,
           assignments |-> SwapEmployees(asg, p[1], p[2], "best", asg[p[1]].matchQuality)]

PassBIteration(asg) ==
  LET pairs == PassBPairs(asg) IN
  IF pairs = {} THEN [improved |-> FALSE, assignments |-> asg, swapped |-> << >>]
  ELSE LET p == FirstPair(pairs)
       IN [improved |-> TRUE,
           swapped |-> << p >>,
           assignments |-> SwapEmployees(asg, p[1], p[2], "best", "extra")]

\* ------------------------------------------------------------------------
\* Display order
\* ------------------------------------------------------------------------
positionOrder(fp, position) ==
  IF position = ExtraLabel THEN 999
  ELSE IF \E k \in DOMAIN fp : fp[k] = position
       THEN SetMax({ k \in DOMAIN fp : fp[k] = position }) - 1
  ELSE IF position = LeadLabel THEN -3
  ELSE IF position = BoosterLabel THEN -2
  ELSE IF position = TrainingLabel THEN -1
  ELSE IF position = <<"buns (lead)">> THEN -1
  ELSE 999

\* the assignments are left in the order they were made
SortForDisplayAsFilled(asg, fp) == asg

SortForDisplay(asg, fp) ==
  LET order == StableSortIdx(Iota(Len(asg)),
                             [k \in 1..Len(asg) |-> positionOrder(fp, asg[k].position)])
  IN [k \in 1..Len(asg) |-> asg[order[k]]]

\* ------------------------------------------------------------------------
\* Break flags of a lineup (generateLineups, assignmentsWithBreaks)
\* ------------------------------------------------------------------------
\* enrichedAssignments.find(ea => ea.employeeId === a.employee.employeeId
\*                                || ea.name === a.employee.name)
\* the index of the enriched assignment found, 0 when there is none
originalAssignmentOf(enriched, employee) ==
  LET found == { k \in DOMAIN enriched :
                   enriched[k].employeeId = employee.employeeId
                   \/ enriched[k].name = employee.name }
  IN IF found = {} THEN 0 ELSE SetMin(found)

WithBreak(enriched, a) ==
  LET originalAssignment == originalAssignmentOf(enriched, a.employee)
      breakInfo == IF originalAssignment # 0
                   THEN calculateBreakFlags(a.employee,
                                            enriched[originalAssignment].startTime,
                                            enriched[originalAssignment].endTime)
                   ELSE [needsBreak |-> FALSE, breakType |-> NoVal]
  IN [employee |-> a.employee, position |-> a.position, matchQuality |-> a.matchQuality,
      needsBreak |-> breakInfo.needsBreak, breakType |-> breakInfo.breakType]

assignmentsWithBreaks(enriched, asg) == [k \in 1..Len(asg) |-> WithBreak(enriched, asg[k])]

\* previousAssignments[employeeId] = a.position, later assignments overwrite
previousAssignmentsOf(asg) ==
  [key \in { EmpKey(asg[k].employee) : k \in DOMAIN asg } |->
     asg[SetMax({ k \in DOMAIN asg : EmpKey(asg[k].employee) = key })].position]

\* the map is not emptied before it is filled
nextPreviousAssignmentsKept(prev, asg) ==
  LET new == previousAssignmentsOf(asg) IN
  [key \in DOMAIN prev \cup DOMAIN new |->
     IF key \in DOMAIN new THEN new[key] ELSE prev[key]]

\* previousAssignments = {}; for (const a of assignments) ... (lines 621-625)
nextPreviousAssignments(prev, asg) == previousAssignmentsOf(asg)

\* ------------------------------------------------------------------------
\* Closing lineup
\* ------------------------------------------------------------------------
\* String.prototype.toLowerCase on the names the model uses
Lower(part) ==
  CASE part = "Primary" -> "primary"
    [] part = "Buns" -> "buns"
    [] OTHER -> part

LowerPos(position) == [k \in 1..Len(position) |-> Lower(position[k])]

\* hay.includes(needle) for single parts: equality, or a listed proper substring
PartIncludes(hay, needle) ==
  hay = needle \/ <<needle, hay>> \in { <<"primary", "primary2">>, <<"fries", "dt fries">>,
                                        <<"fries", "fc fries">>, <<"secondary", "secondary1">>,
                                        <<"secondary", "secondary2">> }

\* hay.includes(needle) for position strings: a one-part needle lies inside one
\* part of hay; a needle with '/' matches whole parts (the names used have no
\* proper prefix or suffix relation across a '/')
PosIncludes(hay, needle) ==
  IF Len(needle) = 1
  THEN \E k \in DOMAIN hay : PartIncludes(hay[k], needle[1])
  ELSE \E o \in 0..(Len(hay) - Len(needle)) :
         \A k \in DOMAIN needle : hay[o + k] = needle[k]

\* assignment.position.toLowerCase().replace(' (floating)', '').replace(' (lead)', '')
CurrentPosOf(position) == [k \in 1..Len(position) |-> StripRoleSuffix(Lower(position[k]))]

employeeCurrentPositions(lastLineup) ==
  LET asg == lastLineup.assignments IN
  [key \in { EmpKey(asg[k].employee) : k \in DOMAIN asg } |->
     CurrentPosOf(asg[SetMax({ k \in DOMAIN asg : EmpKey(asg[k].employee) = key })].position)]

\* nothing is added for the position held in the last lineup
ClosingScoreNoBonus(employee, position, current) ==
  LET positionLower == LowerPos(position)
  IN IF \E p \in employee.bestPositions : <<Lower(p)>> = positionLower THEN 10
     ELSE IF \E p \in employee.positions : <<Lower(p)>> = positionLower THEN 5
     ELSE 0

\* the last position also counts when it lies inside the slot name
ClosingScoreEitherWay(employee, position, current) ==
  LET positionLower == LowerPos(position)
      currentPos == IF EmpKey(employee) \in DOMAIN current THEN current[EmpKey(employee)] ELSE <<>>
  IN (IF currentPos # <<>> /\ (PosIncludes(currentPos, positionLower)
                               \/ PosIncludes(positionLower, currentPos))
      THEN 50 ELSE 0)
     + (IF \E p \in employee.bestPositions : <<Lower(p)>> = positionLower THEN 10
        ELSE IF \E p \in employee.positions : <<Lower(p)>> = positionLower THEN 5
        ELSE 0)

ClosingScore(employee, position, current) ==
  LET positionLower == LowerPos(position)
      currentPos == IF EmpKey(employee) \in DOMAIN current THEN current[EmpKey(employee)] ELSE <<>>
  IN (IF currentPos = positionLower \/ (currentPos # <<>> /\ PosIncludes(currentPos, positionLower))
      THEN 50 ELSE 0)
     + (IF \E p \in employee.bestPositions : <<Lower(p)>> = positionLower THEN 10
        ELSE IF \E p \in employee.positions : <<Lower(p)>> = positionLower THEN 5
        ELSE 0)

RECURSIVE ClosingFill(_, _, _, _)
\* the closing assignments after the closing positions were visited in order
ClosingFill(closingPositions, closers, current, acc) ==
  IF closingPositions = <<>>
  THEN acc \o Labelled(closers, AvailableLabel, "extra")
  ELSE IF closers = <<>>
  THEN ClosingFill(Tail(closingPositions), closers, current, acc)
  ELSE LET position == Head(closingPositions)
           score(n) == ClosingScore(closers[n], position, current)
           bestScore == SetMax({ score(n) : n \in DOMAIN closers })
           bestIndex == SetMin({ n \in DOMAIN closers : score(n) = bestScore })
           quality == IF bestScore >= 50 THEN "best"
                      ELSE IF bestScore >= 5 THEN "capable" ELSE "fallback"
       IN ClosingFill(Tail(closingPositions), RemoveAt(closers, bestIndex), current,
                      Append(acc, [employee |-> closers[bestIndex],
                                   position |-> position,
                                   matchQuality |-> quality]))

\* every worker of the day closes
closingEmployeesOfEveryone(lineups, enriched) == enriched

closingEmployeesOf(lineups, enriched) ==
  LET lastEndTime == lineups[Len(lineups)].endTime
  IN FilterSeq(enriched, [emp \in { enriched[k] : k \in DOMAIN enriched } |->
                            emp.endTime = lastEndTime])

\* every slot of the catalog is a closing position
closingPositionsOfAnySlot(dbPositions) ==
  LET sorted == SortByPriority(dbPositions)
  IN [k \in 1..Len(sorted) |-> sorted[k].name]

closingPositionsOf(dbPositions) ==
  LET sorted == SortByPriority(Flagged(dbPositions, "requiresClosing"))
  IN [k \in 1..Len(sorted) |-> sorted[k].name]

\* the value standing for a closingLineup of null
NoClosing == [title |-> NoVal, assignments |-> <<>>, peopleCount |-> 0]

generateClosingLineup(lineups, enriched, dbPositions) ==
  IF Len(lineups) = 0 THEN NoClosing
  ELSE IF Len(closingEmployeesOf(lineups, enriched)) = 0 THEN NoClosing
  ELSE IF Len(closingPositionsOf(dbPositions)) = 0 THEN NoClosing
  ELSE LET closingAssignments ==
             ClosingFill(closingPositionsOf(dbPositions),
                         closingEmployeesOf(lineups, enriched),
                         employeeCurrentPositions(lineups[Len(lineups)]), <<>>)
       IN [title |-> "Closing",
           assignments |-> closingAssignments,
           peopleCount |-> Len(closingAssignments)]

\* ------------------------------------------------------------------------
\* Requests: the shift windows, worker records and catalogs the model draws
\* ------------------------------------------------------------------------
MaxWorkers == 3

maxIterations == 100

Slot(name, priority, timePeriods, requiresClosing) ==
  [name |-> name, priority |-> priority, timePeriods |-> timePeriods,
   requiresClosing |-> requiresClosing]

CatBasic ==
  << Slot(<<"primary">>, 1, {"all"}, TRUE), Slot(<<"buns">>, 2, {"all"}, TRUE) >>

CatSwapped ==
  << Slot(<<"buns">>, 1, {"all"}, FALSE), Slot(<<"primary">>, 2, {"all"}, TRUE) >>

CatMorning ==
  << Slot(<<"primary">>, 1, {"morning"}, TRUE), Slot(<<"buns">>, 2, {"morning"}, FALSE) >>

CatCombined ==
  << Slot(<<"fries">>, 0, NoPeriods, FALSE), Slot(<<"checklist">>, 2, {"all"}, FALSE),
     Slot(<<"primary", "buns">>, 1, {"all"}, TRUE) >>

CatMarker == << Slot(<<"checklist">>, 1, {"all"}, FALSE) >>

CatBunsOnly == << Slot(<<"buns">>, 1, {"all"}, TRUE) >>

CatTies ==
  << Slot(<<"primary">>, 1, {"all"}, FALSE), Slot(<<"buns">>, 1, {"all"}, FALSE),
     Slot(<<"fries">>, 2, {"midday", "dinner"}, FALSE) >>

\* two slots whose catalog priorities are above the default priorities of the
\* parts of the joined name
CatJoined ==
  << Slot(<<"fries">>, 5, {"all"}, FALSE), Slot(<<"primary", "buns">>, 6, {"all"}, TRUE) >>

Skills(positions, bestPositions) == [positions |-> positions, bestPositions |-> bestPositions]

NoSkill == Skills({}, {})
CapPrimary == Skills({"primary"}, {})
BestPrimary == Skills({"primary"}, {"primary"})
BestBuns == Skills({"buns"}, {"buns"})
BestBoth == Skills({"primary", "buns"}, {"primary", "buns"})
ChecklistBuns == Skills({"buns", "checklist"}, {})

Window(startTime, endTime) == [startTime |-> startTime, endTime |-> endTime]

Early == Window(<<10, 0>>, <<14, 0>>)
FullDay == Window(<<10, 0>>, <<18, 0>>)
Late == Window(<<14, 0>>, <<18, 0>>)
BeforeOpen == Window(<<5, 0>>, <<14, 0>>)

Roles == { "none", "lead", "booster", "trainee", "lead+booster", "booster+trainee" }

\* one worker of a request: skills, window, role flags, minor, name on the
\* shift window ("#" for a name of its own) and whether it carries employeeId
Choice(profile, window, role, minor, name, hasId) ==
  [profile |-> profile, window |-> window, role |-> role, minor |-> minor,
   name |-> name, hasId |-> hasId]

\* A family of requests: the worker choices and catalogs of requests of one or
\* two workers (rich) and of larger requests (lean).
SkillFamily ==
  [rich |-> { Choice(p, w, "none", FALSE, "#", TRUE) :
                p \in {NoSkill, CapPrimary, BestPrimary, BestBuns, BestBoth, ChecklistBuns},
                w \in {Early, FullDay, Late} },
   richCatalogs |-> { <<>>, CatBasic, CatSwapped, CatMorning, CatCombined, CatMarker, CatTies,
                      CatJoined },
   lean |-> { Choice(p, w, "none", FALSE, "#", TRUE) :
                p \in {CapPrimary, BestPrimary, BestBoth, ChecklistBuns},
                w \in {FullDay, Late} },
   leanCatalogs |-> { CatBasic, CatCombined, CatTies }]

RoleFamily ==
  [rich |-> { Choice(p, w, r, FALSE, "#", TRUE) :
                p \in {BestPrimary, BestBuns}, w \in {FullDay, Late}, r \in Roles },
   richCatalogs |-> { CatBasic, CatSwapped, CatMarker },
   lean |-> { Choice(p, FullDay, r, FALSE, "#", TRUE) :
                p \in {ChecklistBuns, BestBuns}, r \in {"none", "lead", "booster", "trainee"} },
   leanCatalogs |-> { CatBasic, CatBunsOnly }]

IdentityFamily ==
  [rich |-> { Choice(BestPrimary, w, "none", m, n, h) :
                w \in {Early, FullDay, Late, BeforeOpen}, m \in BOOLEAN,
                n \in {"#", "Sam"}, h \in BOOLEAN },
   richCatalogs |-> { CatBasic, CatMorning },
   lean |-> { Choice(BestPrimary, w, "none", FALSE, n, h) :
                w \in {Early, FullDay}, n \in {"#", "Sam"}, h \in BOOLEAN },
   leanCatalogs |-> { CatBasic, CatMorning }]

Families == { SkillFamily, RoleFamily, IdentityFamily }

IdOf(k) == "e" \o ToString(k)

ShiftOf(c, k) ==
  [employeeId |-> IF c.hasId THEN IdOf(k) ELSE NoVal,
   name |-> IF c.name = "#" THEN "w" \o ToString(k) ELSE c.name,
   startTime |-> c.window.startTime,
   endTime |-> c.window.endTime,
   isShiftLead |-> c.role \in {"lead", "lead+booster"},
   isBooster |-> c.role \in {"booster", "lead+booster", "booster+trainee"},
   isInTraining |-> c.role \in {"trainee", "booster+trainee"}]

EmployeeOf(c, k) ==
  [id |-> IdOf(k),
   name |-> IF c.name = "#" THEN "w" \o ToString(k) ELSE c.name,
   isMinor |-> c.minor,
   positions |-> c.profile.positions,
   bestPositions |-> c.profile.bestPositions]

RequestOf(cs, catalog) ==
  [shiftAssignments |-> [k \in 1..Len(cs) |-> ShiftOf(cs[k], k)],
   employees |-> [k \in 1..Len(cs) |-> EmployeeOf(cs[k], k)],
   dbPositions |-> catalog]

WorkerChoices(fam, n) == IF n <= 2 THEN fam.rich ELSE fam.lean

CatalogChoices(fam, n) == IF n <= 2 THEN fam.richCatalogs ELSE fam.leanCatalogs

\* ------------------------------------------------------------------------
\* State
\* ------------------------------------------------------------------------
VARIABLES
  request,              \* arguments of the running generateLineups call
  pc,                   \* "interval" | "greedy" | "passA" | "passB" | "done"
  i,                    \* index of the change point the interval loop is at
  previousAssignments,  \* worker key -> label in the lineup emitted last
  lineups,              \* lineups pushed so far
  closingLineup,        \* result of generateClosingLineup
  toFill,               \* sortedPositions of assignEmployeesToPositions
  slotIdx,              \* the slot of toFill the greedy loop visits next
  unassigned,           \* the pool
  assignments,
  improved,
  iterations,
  swapLog,              \* the swaps of the running call: [i, pass, pair]
  history,              \* request and result of the calls that returned
  breakArgs,            \* arguments of a calculateBreakFlags call on its own
  breakFlags,           \* << >>, or the value that call returned
  resolverArgs,         \* arguments of a getPositionsForPeriod call on its own
  resolved,             \* << >>, or what that call returned and left of its catalog
  scoreArgs,            \* arguments of the scoring of one worker for one slot on its own
  scored                \* << >>, or what that scoring gave

vars == <<request, pc, i, previousAssignments, lineups, closingLineup, toFill, slotIdx,
          unassigned, assignments, improved, iterations, swapLog, history,
          breakArgs, breakFlags, resolverArgs, resolved, scoreArgs, scored>>

locals == <<toFill, slotIdx, unassigned, assignments, improved, iterations>>

breakVars == <<breakArgs, breakFlags>>

resolverVars == <<resolverArgs, resolved>>

\* the variables of the calls of a single function on its own
scoreVars == <<scoreArgs, scored>>

pureVars == <<breakVars, resolverVars, scoreVars>>

\* no calculateBreakFlags call on its own is under way
NoBreakCall ==
  /\ breakArgs = [isMinor |-> FALSE, startTime |-> <<0, 0>>, endTime |-> <<0, 0>>]
  /\ breakFlags = << >>

\* no getPositionsForPeriod call on its own is under way
NoResolverCall ==
  /\ resolverArgs = [dbPositions |-> << >>, shiftPeriod |-> NoVal]
  /\ resolved = << >>

\* no scoring of a worker on its own is under way
NoScoreCall ==
  /\ scoreArgs = [employee |-> NoVal, position |-> << >>, boost |-> FALSE, prev |-> << >>]
  /\ scored = << >>

NoPureCall == NoBreakCall /\ NoResolverCall /\ NoScoreCall

enrichedAssignments == enrichedAssignmentsOf(request.shiftAssignments, request.employees)

changePoints == getChangePoints(enrichedAssignments)

startMinutes == changePoints[i]

endMinutes == changePoints[i + 1]

workingEmployees == getWorkingEmployees(enrichedAssignments, startMinutes)

shiftPeriod == getShiftPeriod(minutesToTime(startMinutes))

positionsToUse ==
  IF Len(request.dbPositions) > 0
  THEN getPositionsForPeriod(request.dbPositions, shiftPeriod)
  ELSE <<>>

InLoop == pc = "interval" /\ i < Len(changePoints)

Skipped == shiftPeriod = NoVal \/ Len(workingEmployees) = 0 \/ Len(positionsToUse) = 0

\* the state a call starts in (lines 578-590)
StartCall(req) ==
  /\ request = req
  /\ pc = "interval"
  /\ i = 1
  /\ previousAssignments = << >>
  /\ lineups = << >>
  /\ closingLineup = NoClosing
  /\ toFill = << >>
  /\ slotIdx = 0
  /\ unassigned = << >>
  /\ assignments = << >>
  /\ improved = FALSE
  /\ iterations = 0
  /\ swapLog = << >>

Init ==
  /\ \E n \in 1..MaxWorkers : \E fam \in Families :
       \E cs \in [1..n -> WorkerChoices(fam, n)] : \E catalog \in CatalogChoices(fam, n) :
         StartCall(RequestOf(cs, catalog))
  /\ history = << >>
  /\ NoPureCall

SkipInterval ==
  /\ InLoop
  /\ Skipped
  /\ i' = i + 1
  /\ UNCHANGED <<request, pc, previousAssignments, lineups, closingLineup, locals, swapLog, history>>
  /\ UNCHANGED pureVars

BeginInterval ==
  /\ InLoop
  /\ ~Skipped
  /\ LET r == RoleRemoval(workingEmployees) IN
       /\ assignments' = r.assignments
       /\ unassigned' = r.unassigned
  /\ toFill' = sortedPositionsOf(positionsToUse, positionPriorityMap(request.dbPositions))
  /\ slotIdx' = 1
  /\ pc' = "greedy"
  /\ UNCHANGED <<request, i, previousAssignments, lineups, closingLineup, improved,
                 iterations, swapLog, history>>
  /\ UNCHANGED pureVars

GreedyVisit ==
  /\ pc = "greedy"
  /\ slotIdx <= Len(toFill)
  /\ LET r == GreedyVisitResult(assignments, unassigned, toFill[slotIdx], previousAssignments) IN
       /\ assignments' = r.assignments
       /\ unassigned' = r.unassigned
  /\ slotIdx' = slotIdx + 1
  /\ UNCHANGED <<request, pc, i, previousAssignments, lineups, closingLineup, toFill,
                 improved, iterations, swapLog, history>>
  /\ UNCHANGED pureVars

AssignExtras ==
  /\ pc = "greedy"
  /\ slotIdx > Len(toFill)
  /\ assignments' = assignments \o Labelled(unassigned, ExtraLabel, "extra")
  /\ improved' = TRUE
  /\ iterations' = 0
  /\ pc' = "passA"
  /\ UNCHANGED <<request, i, previousAssignments, lineups, closingLineup, toFill, slotIdx,
                 unassigned, swapLog, history>>
  /\ UNCHANGED pureVars

LoopContinues == improved /\ iterations < maxIterations

\* the Pass A loop body without iterations++
PassAStepNoCount ==
  /\ pc = "passA"
  /\ LoopContinues
  /\ iterations' = iterations
  /\ LET r == PassAIteration(assignments) IN
       /\ improved' = r.improved
       /\ assignments' = r.assignments
       /\ swapLog' = swapLog \o [k \in DOMAIN r.swapped |->
                                   [i |-> i, pass |-> "A", pair |-> r.swapped[k]]]
  /\ UNCHANGED <<request, pc, i, previousAssignments, lineups, closingLineup, toFill,
                 slotIdx, unassigned, history>>
  /\ UNCHANGED pureVars

PassAStep ==
  /\ pc = "passA"
  /\ LoopContinues
  /\ iterations' = iterations + 1
  /\ LET r == PassAIteration(assignments) IN
       /\ improved' = r.improved
       /\ assignments' = r.assignments
       /\ swapLog' = swapLog \o [k \in DOMAIN r.swapped |->
                                   [i |-> i, pass |-> "A", pair |-> r.swapped[k]]]
  /\ UNCHANGED <<request, pc, i, previousAssignments, lineups, closingLineup, toFill,
                 slotIdx, unassigned, history>>
  /\ UNCHANGED pureVars

PassAExit ==
  /\ pc = "passA"
  /\ ~LoopContinues
  /\ improved' = TRUE
  /\ iterations' = 0
  /\ pc' = "passB"
  /\ UNCHANGED <<request, i, previousAssignments, lineups, closingLineup, toFill, slotIdx,
                 unassigned, assignments, swapLog, history>>
  /\ UNCHANGED pureVars

PassBStep ==
  /\ pc = "passB"
  /\ LoopContinues
  /\ iterations' = iterations + 1
  /\ LET r == PassBIteration(assignments) IN
       /\ improved' = r.improved
       /\ assignments' = r.assignments
       /\ swapLog' = swapLog \o [k \in DOMAIN r.swapped |->
                                   [i |-> i, pass |-> "B", pair |-> r.swapped[k]]]
  /\ UNCHANGED <<request, pc, i, previousAssignments, lineups, closingLineup, toFill,
                 slotIdx, unassigned, history>>
  /\ UNCHANGED pureVars

\* the rest of the loop body: display order, previous positions, break flags,
\* lineups.push
Emit ==
  /\ pc = "passB"
  /\ ~LoopContinues
  /\ LET sorted == SortForDisplay(assignments, filteredPositions(positionsToUse)) IN
       /\ previousAssignments' = nextPreviousAssignments(previousAssignments, sorted)
       /\ lineups' = Append(lineups,
            [startTime |-> minutesToTime(startMinutes),
             endTime |-> minutesToTime(endMinutes),
             shiftPeriod |-> shiftPeriod,
             peopleCount |-> Len(workingEmployees),
             positionsUsed |-> Len(positionsToUse),
             extraPeople |-> IF Len(workingEmployees) - Len(positionsToUse) > 0
                             THEN Len(workingEmployees) - Len(positionsToUse) ELSE 0,
             assignments |-> assignmentsWithBreaks(enrichedAssignments, sorted)])
  /\ i' = i + 1
  /\ pc' = "interval"
  /\ toFill' = << >>
  /\ slotIdx' = 0
  /\ unassigned' = << >>
  /\ assignments' = << >>
  /\ improved' = FALSE
  /\ iterations' = 0
  /\ UNCHANGED <<request, closingLineup, swapLog, history>>
  /\ UNCHANGED pureVars

\* after the loop: the closing lineup, and the call returns
Closing ==
  /\ pc = "interval"
  /\ i >= Len(changePoints)
  /\ closingLineup' = generateClosingLineup(lineups, enrichedAssignments, request.dbPositions)
  /\ pc' = "done"
  /\ history' = Append(history, [request |-> request,
                                 lineups |-> lineups,
                                 closingLineup |-> closingLineup'])
  /\ UNCHANGED <<request, i, previousAssignments, lineups, locals, swapLog>>
  /\ UNCHANGED pureVars

Next ==
  \/ SkipInterval
  \/ BeginInterval
  \/ GreedyVisit
  \/ AssignExtras
  \/ PassAStep
  \/ PassAExit
  \/ PassBStep
  \/ Emit
  \/ Closing

Spec == Init /\ [][Next]_vars

\* ------------------------------------------------------------------------
\* Several calls of generateLineups, one after the other
\* ------------------------------------------------------------------------
MaxCalls == 3

CallChoices ==
  { Choice(BestBoth, FullDay, "none", FALSE, "#", TRUE),
    Choice(BestBuns, BeforeOpen, "none", FALSE, "#", TRUE),
    Choice(BestPrimary, Late, "none", FALSE, "#", TRUE) }

\* calls with two workers and a catalog, a call without a catalog and a call
\* without shift windows
CallRequests ==
  { RequestOf(cs, CatBasic) : cs \in [1..2 -> CallChoices] }
  \cup { RequestOf(<< Choice(BestBoth, FullDay, "none", FALSE, "#", TRUE) >>, << >>),
          RequestOf(<< >>, CatBasic) }

\* previousAssignments is a variable of the module that every call inherits
carriedPreviousAssignments(carried) == carried

\* let previousAssignments = {} (line 582): a local of the call
freshPreviousAssignments(carried) == << >>

InitCalls ==
  /\ \E req \in CallRequests : StartCall(req)
  /\ history = << >>
  /\ NoPureCall

Call ==
  /\ pc = "done"
  /\ Len(history) < MaxCalls
  /\ \E req \in CallRequests : request' = req
  /\ pc' = "interval"
  /\ i' = 1
  /\ previousAssignments' = freshPreviousAssignments(previousAssignments)
  /\ lineups' = << >>
  /\ closingLineup' = NoClosing
  /\ swapLog' = << >>
  /\ UNCHANGED <<locals, history>>
  /\ UNCHANGED pureVars

NextCalls == Next \/ Call

SpecCalls == InitCalls /\ [][NextCalls]_vars

\* ------------------------------------------------------------------------
\* calculateBreakFlags on its own: one call on a shift window of a minor or an
\* adult, of every length in minutes up to MaxShiftMinutes
\* ------------------------------------------------------------------------
MaxShiftMinutes == 480

BreakStarts == { <<6, 0>>, <<10, 15>> }

\* the generator takes no step here: its variables stay at the entry of a call
\* without shift windows
InitBreak ==
  /\ StartCall(RequestOf(<< >>, << >>))
  /\ history = << >>
  /\ \E minor \in BOOLEAN : \E startTime \in BreakStarts : \E d \in 0..MaxShiftMinutes :
       breakArgs = [isMinor |-> minor,
                    startTime |-> startTime,
                    endTime |-> minutesToTime(timeToMinutes(startTime) + d)]
  /\ breakFlags = << >>
  /\ NoResolverCall
  /\ NoScoreCall

ApplyBreakFlags ==
  /\ breakFlags = << >>
  /\ breakFlags' = << calculateBreakFlags([isMinor |-> breakArgs.isMinor],
                                          breakArgs.startTime, breakArgs.endTime) >>
  /\ UNCHANGED <<request, pc, i, previousAssignments, lineups, closingLineup, locals,
                 swapLog, history, breakArgs, resolverVars, scoreVars>>

NextBreak == ApplyBreakFlags

SpecBreak == InitBreak /\ [][NextBreak]_vars

\* ------------------------------------------------------------------------
\* The six-worker scenario: six adults without role flags, 10:00-18:00 each,
\* and the catalog primary 1, secondary 2, breading 3, machines 4, fries 5,
\* buns 6, every slot for all periods; the skills vary
\* ------------------------------------------------------------------------
ScenarioNames == << "primary", "secondary", "breading", "machines", "fries", "buns" >>

ScenarioCatalog ==
  [k \in 1..Len(ScenarioNames) |-> Slot(<< ScenarioNames[k] >>, k, {"all"}, FALSE)]

ScenarioAll == { ScenarioNames[k] : k \in DOMAIN ScenarioNames }

ScenarioProfiles ==
  { NoSkill,
    Skills(ScenarioAll, {}),
    Skills(ScenarioAll, {"machines"}),
    Skills(ScenarioAll \cup {"checklist"}, {}) }

ScenarioWindow == Window(<<10, 0>>, <<18, 0>>)

ScenarioRequests ==
  { RequestOf([k \in 1..Len(ScenarioNames) |->
                 Choice(ps[k], ScenarioWindow, "none", FALSE, "#", TRUE)], ScenarioCatalog) :
      ps \in [1..Len(ScenarioNames) -> ScenarioProfiles] }

InitScenario ==
  /\ \E req \in ScenarioRequests : StartCall(req)
  /\ history = << >>
  /\ NoPureCall

\* the interval of the scenario is never skipped (C13 checks it)
NextScenario ==
  \/ BeginInterval
  \/ GreedyVisit
  \/ AssignExtras
  \/ PassAStep
  \/ PassAExit
  \/ PassBStep
  \/ Emit
  \/ Closing

SpecScenario == InitScenario /\ [][NextScenario]_vars

\* ------------------------------------------------------------------------
\* The interval loop on its own: up to MaxWorkers shift windows whose start
\* and end are any two of MaxMarks consecutive minute marks around 10:00
\* (start after end included), no catalog, so that every interval is skipped
\* ------------------------------------------------------------------------
MaxMarks == 3

PartitionMarks == { minutesToTime(598 + k) : k \in 1..MaxMarks }

PartitionChoices ==
  { Choice(NoSkill, Window(s, e), "none", FALSE, "#", TRUE) :
      s \in PartitionMarks, e \in PartitionMarks }

InitPartition ==
  /\ \E n \in 1..MaxWorkers : \E cs \in [1..n -> PartitionChoices] :
       StartCall(RequestOf(cs, << >>))
  /\ history = << >>
  /\ NoPureCall

NextPartition ==
  \/ SkipInterval
  \/ Closing

SpecPartition == InitPartition /\ [][NextPartition]_vars

\* ------------------------------------------------------------------------
\* Calls around the shift period boundaries: one or two workers whose windows
\* start and end at the minutes next to the boundaries, one slot for all
\* periods
\* ------------------------------------------------------------------------
BoundaryMinutes == { 359, 360, 629, 630, 839, 840, 1019, 1020, 1199, 1200, 1319, 1320, 1380 }

BoundaryWindows ==
  { w \in BoundaryMinutes \X BoundaryMinutes : w[1] < w[2] }

BoundaryChoices ==
  { Choice(BestBuns, Window(minutesToTime(w[1]), minutesToTime(w[2])), "none", FALSE, "#", TRUE) :
      w \in BoundaryWindows }

InitPeriods ==
  /\ \E n \in 1..2 : \E cs \in [1..n -> BoundaryChoices] :
       StartCall(RequestOf(cs, CatBunsOnly))
  /\ history = << >>
  /\ NoPureCall

SpecPeriods == InitPeriods /\ [][Next]_vars

\* ------------------------------------------------------------------------
\* getPositionsForPeriod on its own: one call on a catalog of up to MaxSlots
\* slots with distinct names, for every period
\* ------------------------------------------------------------------------
MaxSlots == 3

ResolverPriorities == { 0, 1, 2, 99 }

ResolverPeriods == { NoPeriods, {}, {"all"}, {"morning"}, {"lunch", "dinner"} }

ResolverTargets == { "morning", "lunch", "midday", "dinner", "lateNight" }

ResolverCatalogs ==
  UNION { { [k \in 1..n |-> Slot(<< ScenarioNames[k] >>, pr[k], tp[k], FALSE)] :
              pr \in [1..n -> ResolverPriorities], tp \in [1..n -> ResolverPeriods] } :
          n \in 0..MaxSlots }

\* the generator takes no step here: its variables stay at the entry of a call
\* without shift windows
InitResolver ==
  /\ StartCall(RequestOf(<< >>, << >>))
  /\ history = << >>
  /\ NoBreakCall
  /\ NoScoreCall
  /\ \E dbPositions \in ResolverCatalogs : \E target \in ResolverTargets :
       resolverArgs = [dbPositions |-> dbPositions, shiftPeriod |-> target]
  /\ resolved = << >>

\* filter returns a new array and the sort is on that array: the catalog the
\* caller holds is left as it was passed
ResolvePositions ==
  /\ resolved = << >>
  /\ resolved' = << [positions |-> getPositionsForPeriod(resolverArgs.dbPositions,
                                                         resolverArgs.shiftPeriod),
                     dbPositions |-> resolverArgs.dbPositions] >>
  /\ UNCHANGED <<request, pc, i, previousAssignments, lineups, closingLineup, locals,
                 swapLog, history, breakVars, resolverArgs, scoreVars>>

NextResolver == ResolvePositions

SpecResolver == InitResolver /\ [][NextResolver]_vars

\* ------------------------------------------------------------------------
\* Calls in which a worker may come back: up to MaxWindows shift windows of
\* two workers between 10:00 and 18:00, the windows of one worker apart from
\* each other
\* ------------------------------------------------------------------------
MaxWindows == 3

ThreadingMarks == { <<10, 0>>, <<12, 0>>, <<14, 0>>, <<18, 0>> }

ThreadingEmployees ==
  << [id |-> IdOf(1), name |-> "w1", isMinor |-> FALSE,
      positions |-> BestBoth.positions, bestPositions |-> BestBoth.bestPositions],
     [id |-> IdOf(2), name |-> "w2", isMinor |-> FALSE,
      positions |-> BestPrimary.positions, bestPositions |-> BestPrimary.bestPositions] >>

ThreadingShifts ==
  { [employeeId |-> ThreadingEmployees[k].id, name |-> NoVal,
     startTime |-> a, endTime |-> b,
     isShiftLead |-> FALSE, isBooster |-> FALSE, isInTraining |-> FALSE] :
      k \in DOMAIN ThreadingEmployees,
      a \in ThreadingMarks,
      b \in ThreadingMarks } 

Apart(x, y) ==
  \/ timeToMinutes(x.endTime) <= timeToMinutes(y.startTime)
  \/ timeToMinutes(y.endTime) <= timeToMinutes(x.startTime)

ThreadingRequests ==
  { [shiftAssignments |-> ws, employees |-> ThreadingEmployees, dbPositions |-> catalog] :
      ws \in { s \in UNION { [1..n -> ThreadingShifts] : n \in 1..MaxWindows } :
                 /\ \A k \in DOMAIN s : timeToMinutes(s[k].startTime) < timeToMinutes(s[k].endTime)
                 /\ \A k \in DOMAIN s : \A l \in DOMAIN s :
                      k # l /\ s[k].employeeId = s[l].employeeId => Apart(s[k], s[l]) },
      catalog \in { CatBasic, CatMorning } }

InitThreading ==
  /\ \E req \in ThreadingRequests : StartCall(req)
  /\ history = << >>
  /\ NoPureCall

SpecThreading == InitThreading /\ [][Next]_vars

\* ------------------------------------------------------------------------
\* Calls on a catalog with a slot named 'lead', a name of the default priority
\* table: one or two workers without role flags
\* ------------------------------------------------------------------------
CatLead ==
  << Slot(<<"lead">>, 1, {"all"}, FALSE), Slot(<<"buns">>, 2, {"all"}, FALSE) >>

CatLeadOnly == << Slot(<<"lead">>, 1, {"all"}, FALSE) >>

BestLead == Skills({"lead"}, {"lead"})
CapBuns == Skills({"buns"}, {})

LeadSlotChoices ==
  { Choice(p, w, "none", FALSE, "#", TRUE) :
      p \in {NoSkill, BestBuns, CapBuns, BestLead}, w \in {FullDay, Late, BeforeOpen} }

InitLeadSlot ==
  /\ \E n \in 1..2 : \E cs \in [1..n -> LeadSlotChoices] :
       \E catalog \in {CatLead, CatLeadOnly} : StartCall(RequestOf(cs, catalog))
  /\ history = << >>
  /\ NoPureCall

SpecLeadSlot == InitLeadSlot /\ [][Next]_vars

\* ------------------------------------------------------------------------
\* Calls for the closing lineup: one or two workers carrying their employeeId,
\* a catalog of two closing slots for all periods and one whose first closing
\* slot is for the morning only
\* ------------------------------------------------------------------------
CatClosers ==
  << Slot(<<"primary">>, 1, {"morning"}, TRUE), Slot(<<"buns">>, 2, {"all"}, TRUE) >>

ClosingChoices ==
  { Choice(p, w, "none", FALSE, "#", TRUE) :
      p \in {NoSkill, BestPrimary, BestBuns}, w \in {Early, FullDay, Late, BeforeOpen} }

InitClosing ==
  /\ \E n \in 1..2 : \E cs \in [1..n -> ClosingChoices] :
       \E catalog \in {CatBasic, CatClosers} : StartCall(RequestOf(cs, catalog))
  /\ history = << >>
  /\ NoPureCall

SpecClosing == InitClosing /\ [][Next]_vars

\* ------------------------------------------------------------------------
\* The scoring of generateClosingLineup on its own: one closer, one closing
\* slot, and the label the closer carries in the last lineup (<< >>: the
\* closer is not in it)
\* ------------------------------------------------------------------------
CloserProfiles == { NoSkill, BestPrimary, CapPrimary, BestBuns }

CloserOf(profile, hasId) ==
  [employeeId |-> IF hasId THEN IdOf(1) ELSE NoVal, id |-> IdOf(1), name |-> "w1",
   positions |-> profile.positions, bestPositions |-> profile.bestPositions]

ClosingSlotNames ==
  { <<"primary">>, <<"Primary">>, <<"primary2">>, <<"buns">>, <<"fries">>, <<"dt fries">>,
    <<"primary", "buns">> }

LastLabels ==
  { <<"primary">>, <<"Primary">>, <<"primary2">>, <<"buns">>, <<"buns (lead)">>, <<"fries">>,
    <<"dt fries">>, <<"primary", "buns">>, LeadLabel, ExtraLabel }

InitClosingScore ==
  /\ StartCall(RequestOf(<< >>, << >>))
  /\ history = << >>
  /\ NoBreakCall
  /\ NoResolverCall
  /\ \E profile \in CloserProfiles : \E hasId \in BOOLEAN :
     \E position \in ClosingSlotNames : \E prev \in LastLabels \cup {<< >>} :
       scoreArgs = [employee |-> CloserOf(profile, hasId), position |-> position,
                    boost |-> FALSE, prev |-> prev]
  /\ scored = << >>

\* the last lineup as far as the closer is concerned
LastLineupOf(employee, prev) ==
  [assignments |-> IF prev = << >> THEN << >>
                   ELSE << [employee |-> employee, position |-> prev] >>]

\* the score of the closer for the slot, and the closing assignment the slot
\* gets when the closer is the only one left
ScoreCloser ==
  /\ scored = << >>
  /\ LET current == employeeCurrentPositions(LastLineupOf(scoreArgs.employee, scoreArgs.prev))
     IN scored' = << [score |-> ClosingScore(scoreArgs.employee, scoreArgs.position, current),
                      fill |-> ClosingFill(<<scoreArgs.position>>, <<scoreArgs.employee>>,
                                           current, << >>)] >>
  /\ UNCHANGED <<request, pc, i, previousAssignments, lineups, closingLineup, locals,
                 swapLog, history, breakVars, resolverVars, scoreArgs>>

NextClosingScore == ScoreCloser

SpecClosingScore == InitClosingScore /\ [][NextClosingScore]_vars

\* ------------------------------------------------------------------------
\* scoreEmployeeForPosition on its own: one worker, one slot, the checklist
\* boost on or off, and the previous position (<< >>: none is passed)
\* ------------------------------------------------------------------------
ScoreSkillNames == { "primary", "buns", "checklist" }

ScoreProfiles ==
  { Skills(ps, bs) : ps \in SUBSET ScoreSkillNames, bs \in SUBSET ScoreSkillNames }

ScoreSlots ==
  { <<"primary">>, <<"buns">>, <<"machines">>, <<"secondary2">>, <<"fries">>,
    <<"primary", "buns">>, <<"fries", "buns">>, <<"machines", "primary">> }

ScorePrevious ==
  { <<"primary">>, <<"buns">>, <<"buns (lead)">>, <<"fries">>, <<"primary", "buns">>,
    <<"buns", "primary">>, <<"machines", "primary">>, LeadLabel, ExtraLabel }

InitScore ==
  /\ StartCall(RequestOf(<< >>, << >>))
  /\ history = << >>
  /\ NoBreakCall
  /\ NoResolverCall
  /\ \E profile \in ScoreProfiles : \E position \in ScoreSlots : \E boost \in BOOLEAN :
     \E prev \in ScorePrevious \cup {<< >>} :
       scoreArgs = [employee |-> CloserOf(profile, TRUE), position |-> position,
                    boost |-> boost, prev |-> prev]
  /\ scored = << >>

ScoreEmployee ==
  /\ scored = << >>
  /\ scored' = << scoreEmployeeForPosition(scoreArgs.employee, scoreArgs.position,
                                           scoreArgs.boost,
                                           IF scoreArgs.prev = << >> THEN NoVal
                                           ELSE scoreArgs.prev) >>
  /\ UNCHANGED <<request, pc, i, previousAssignments, lineups, closingLineup, locals,
                 swapLog, history, breakVars, resolverVars, scoreArgs>>

NextScore == ScoreEmployee

SpecScore == InitScore /\ [][NextScore]_vars

\* ------------------------------------------------------------------------
\* The interval loop of backend/services/lineupGenerator.js: the same as
\* above up to the extras, then one optimization pass 'while (improved)'
\* without a count of its iterations, in place of the two capped passes
\* ------------------------------------------------------------------------
CapBoth == Skills({"primary", "buns"}, {})

\* the pairs (i, j) at which the scan of the optimization pass swaps
BackendPairs(asg) ==
  { p \in (DOMAIN asg) \X (DOMAIN asg) :
      /\ p[1] # p[2]
      /\ ~IncludesLead(asg[p[1]].position)
      /\ asg[p[1]].position # ExtraLabel
      /\ asg[p[1]].matchQuality \in {"fallback", "capable"}
      /\ ~IncludesLead(asg[p[2]].position)
      /\ scoreEmployeeForPosition(asg[p[2]].employee, asg[p[1]].position, FALSE, NoVal) >= 10
      /\ \/ asg[p[2]].position = ExtraLabel
         \/ scoreEmployeeForPosition(asg[p[1]].employee, asg[p[2]].position, FALSE, NoVal) > 0 }

\* [improved, assignments] after one iteration of 'while (improved)'
BackendIteration(asg) ==
  LET pairs == BackendPairs(asg) IN
  IF pairs = {} THEN [improved |-> FALSE, assignments |-> asg]
  ELSE LET p == FirstPair(pairs)
           currentEmployeeScoreAtOther ==
             scoreEmployeeForPosition(asg[p[1]].employee, asg[p[2]].position, FALSE, NoVal)
       IN [improved |-> TRUE,
           assignments |-> SwapEmployees(asg, p[1], p[2], "best",
                             IF asg[p[2]].position = ExtraLabel THEN "extra"
                             ELSE QualityOf(currentEmployeeScoreAtOther))]

\* one iteration of 'while (improved)'; the code counts nothing here
BackendPassStep ==
  /\ pc = "passA"
  /\ improved
  /\ LET r == BackendIteration(assignments) IN
       /\ improved' = r.improved
       /\ assignments' = r.assignments
  /\ UNCHANGED <<request, pc, i, previousAssignments, lineups, closingLineup, toFill,
                 slotIdx, unassigned, iterations, swapLog, history>>
  /\ UNCHANGED pureVars

\* the loop is left: display order, previous positions, break flags,
\* lineups.push
BackendEmit ==
  /\ pc = "passA"
  /\ ~improved
  /\ LET sorted == SortForDisplay(assignments, filteredPositions(positionsToUse)) IN
       /\ previousAssignments' = nextPreviousAssignments(previousAssignments, sorted)
       /\ lineups' = Append(lineups,
            [startTime |-> minutesToTime(startMinutes),
             endTime |-> minutesToTime(endMinutes),
             shiftPeriod |-> shiftPeriod,
             peopleCount |-> Len(workingEmployees),
             positionsUsed |-> Len(positionsToUse),
             extraPeople |-> IF Len(workingEmployees) - Len(positionsToUse) > 0
                             THEN Len(workingEmployees) - Len(positionsToUse) ELSE 0,
             assignments |-> assignmentsWithBreaks(enrichedAssignments, sorted)])
  /\ i' = i + 1
  /\ pc' = "interval"
  /\ toFill' = << >>
  /\ slotIdx' = 0
  /\ unassigned' = << >>
  /\ assignments' = << >>
  /\ improved' = FALSE
  /\ iterations' = 0
  /\ UNCHANGED <<request, closingLineup, swapLog, history>>
  /\ UNCHANGED pureVars

BackendChoices ==
  { Choice(p, w, "none", FALSE, "#", TRUE) :
      p \in {NoSkill, BestPrimary, BestBoth, CapBoth}, w \in {FullDay, Late, BeforeOpen} }

InitBackend ==
  /\ \E n \in 1..2 : \E cs \in [1..n -> BackendChoices] :
       \E catalog \in {CatBasic, CatBunsOnly} : StartCall(RequestOf(cs, catalog))
  /\ history = << >>
  /\ NoPureCall

NextBackend ==
  \/ SkipInterval
  \/ BeginInterval
  \/ GreedyVisit
  \/ AssignExtras
  \/ BackendPassStep
  \/ BackendEmit

SpecBackend == InitBackend /\ [][NextBackend]_vars

\* ------------------------------------------------------------------------
\* Properties
\* ------------------------------------------------------------------------
RoleLabels == { LeadLabel, BoosterLabel, TrainingLabel }

FixedLabels == RoleLabels \cup { ExtraLabel }

\* the working set of an emitted lineup, recomputed from the request
WorkingSetOf(lineup) ==
  getWorkingEmployees(enrichedAssignments, timeToMinutes(lineup.startTime))

Refs(s) == { s[k].ref : k \in DOMAIN s }

AssignedRefs(lineup) == { lineup.assignments[k].employee.ref : k \in DOMAIN lineup.assignments }

HasRole(e) == e.isShiftLead = TRUE \/ e.isBooster = TRUE \/ e.isInTraining = TRUE

SwappedIn(pass) == \E k \in DOMAIN swapLog : swapLog[k].pass = pass

\* C1 Conservation: in every emitted lineup each worker of the interval's
\* working set holds exactly one assignment, nobody else holds one, and the
\* number of assignments is the size of the working set.
C1_Conservation ==
  \A n \in DOMAIN lineups :
    LET L == lineups[n]
        W == WorkingSetOf(L)
    IN /\ Len(L.assignments) = Len(W)
       /\ AssignedRefs(L) = Refs(W)
       /\ \A r \in Refs(W) :
            Cardinality({ k \in DOMAIN L.assignments : L.assignments[k].employee.ref = r }) = 1

\* a returned lineup with a role-flag worker, a slot worker and an extra, in a
\* call whose optimizer swapped
C1_Witness ==
  /\ pc = "done"
  /\ swapLog # << >>
  /\ \E n \in DOMAIN lineups :
       LET A == lineups[n].assignments IN
       /\ \E k \in DOMAIN A : A[k].position \in RoleLabels
       /\ \E k \in DOMAIN A : A[k].position = ExtraLabel
       /\ \E k \in DOMAIN A : A[k].position \notin FixedLabels

\* C2 Quality consistency: on every slot assignment of an emitted lineup the
\* quality is the class of the worker's unboosted score at that slot.
C2_QualityConsistency ==
  \A n \in DOMAIN lineups :
    \A k \in DOMAIN lineups[n].assignments :
      LET a == lineups[n].assignments[k] IN
      a.position \notin FixedLabels
        => a.matchQuality = QualityOf(BaseScore(a.employee, a.position))

\* a returned call in which both passes swapped, a slot was won with a boosted
\* score above the base score class, and a slot was filled by a forced fallback
C2_Witness ==
  /\ pc = "done"
  /\ SwappedIn("A")
  /\ \E n \in DOMAIN lineups : \E k \in DOMAIN lineups[n].assignments :
       LET a == lineups[n].assignments[k] IN
       /\ a.position \notin FixedLabels
       /\ a.matchQuality = "capable"
       /\ ChecklistBonus(a.employee, a.position) > 0
  /\ \E n \in DOMAIN lineups : \E k \in DOMAIN lineups[n].assignments :
       LET a == lineups[n].assignments[k] IN
       a.position \notin FixedLabels /\ a.matchQuality = "fallback"

\* the assignments of a state differ from those before in the employees of at
\* most one pair of entries, which were exchanged
AtMostOneSwap ==
  /\ Len(assignments') = Len(assignments)
  /\ \A k \in DOMAIN assignments : assignments'[k].position = assignments[k].position
  /\ Cardinality({ k \in DOMAIN assignments :
                     assignments'[k].employee # assignments[k].employee }) <= 2
  /\ \A a \in DOMAIN assignments :
       assignments'[a].employee # assignments[a].employee
         => \E b \in DOMAIN assignments :
              /\ b # a
              /\ assignments'[a].employee = assignments[b].employee
              /\ assignments'[b].employee = assignments[a].employee

\* what is left of a call, counted in steps, when each pass may use all of its
\* maxIterations iterations: p is the position in the code, k the interval
\* index, left the slots still to visit, its the pass's iteration counter
IntervalBudget == Len(request.dbPositions) + 2 * maxIterations + 4

InnerRank(p, left, its) ==
  CASE p = "greedy" -> left + 2 * maxIterations + 3
    [] p = "passA" -> (maxIterations - its) + maxIterations + 2
    [] p = "passB" -> (maxIterations - its) + 1
    [] OTHER -> 0

Rank(p, k, left, its) ==
  IF p = "done" THEN 0
  ELSE IF p = "interval"
  THEN (IF k < Len(changePoints) THEN (Len(changePoints) - k) * IntervalBudget ELSE 0) + 1
  ELSE (Len(changePoints) - k - 1) * IntervalBudget + 1 + InnerRank(p, left, its)

\* C3 Bounded termination: a pass never counts more than maxIterations
\* iterations, every loop iteration counts one and performs at most one swap,
\* and every step of a call lowers a natural-number rank that allows each pass
\* maxIterations iterations, so every call ends.
C3_BoundedTermination ==
  [][ /\ iterations <= maxIterations /\ iterations' <= maxIterations
      /\ request' = request
           => /\ Rank(pc', i', Len(toFill') + 1 - slotIdx', iterations') >= 0
              /\ Rank(pc', i', Len(toFill') + 1 - slotIdx', iterations')
                   < Rank(pc, i, Len(toFill) + 1 - slotIdx, iterations)
      /\ (pc \in {"passA", "passB"} /\ pc' = pc)
           => /\ iterations' = iterations + 1
              /\ AtMostOneSwap
              /\ Len(swapLog') <= Len(swapLog) + 1 ]_vars

\* a call that returned after both passes swapped
C3_Witness == pc = "done" /\ SwappedIn("A") /\ SwappedIn("B")

\* C4 Determinism and isolation: calls with the same arguments return the same
\* lineups and the same closing lineup, whatever calls ran before them.
C4_Determinism ==
  \A a, b \in DOMAIN history :
    history[a].request = history[b].request
      => /\ history[a].lineups = history[b].lineups
         /\ history[a].closingLineup = history[b].closingLineup

\* three calls returned, the first and the third with the same arguments and a
\* call with another result between them
C4_Witness ==
  /\ Len(history) = 3
  /\ history[1].request = history[3].request
  /\ history[2].request # history[1].request
  /\ history[2].lineups # history[1].lineups
  /\ Len(history[1].lineups) = 2

\* ------------------------------------------------------------------------
\* Continuity between consecutive lineups
\* ------------------------------------------------------------------------
\* the slot list of the interval of an emitted lineup, and its fill order
SlotListOf(lineup) ==
  filteredPositions(getPositionsForPeriod(request.dbPositions, lineup.shiftPeriod))

FillOrderOf(lineup) ==
  sortedPositionsOf(getPositionsForPeriod(request.dbPositions, lineup.shiftPeriod),
                    positionPriorityMap(request.dbPositions))

Labels(s) == { s[k] : k \in DOMAIN s }

Holds(lineup, w, P) ==
  \E k \in DOMAIN lineup.assignments :
    /\ lineup.assignments[k].employee.ref = w.ref
    /\ lineup.assignments[k].position = P

\* the unflagged workers of a lineup's working set other than w
Competitors(lineup, w) ==
  { x \in Labels(WorkingSetOf(lineup)) : x.ref # w.ref /\ ~HasRole(x) }

\* the case of the continuity preference: lineups n and n + 1, an unflagged
\* worker w of the second who held slot P in the first, P in the second slot
\* list, w best at P and at another slot of that list
ContinuityCase(n, w, P) ==
  /\ n \in DOMAIN lineups /\ n + 1 \in DOMAIN lineups
  /\ w \in Labels(WorkingSetOf(lineups[n + 1]))
  /\ ~HasRole(w)
  /\ Holds(lineups[n], w, P)
  /\ P \in Labels(SlotListOf(lineups[n + 1]))
  /\ BaseScore(w, P) >= 10
  /\ \E Q \in Labels(SlotListOf(lineups[n + 1])) : Q # P /\ BaseScore(w, Q) >= 10

\* x comes from a label that gives it the continuity bonus at P
ComesFrom(n, x, P) ==
  ContinuityBonus(P, PrevPositionOf(previousAssignmentsOf(lineups[n].assignments), x)) > 0

\* Pass A would exchange w at P with x at S
SwapCause(w, P, x, S) ==
  shouldSwap(<< [employee |-> w, position |-> P], [employee |-> x, position |-> S] >>, 1, 2)

\* C5 as stated: the worker of the continuity case holds P in the second
\* lineup, whatever the other workers and the priorities are.
C5_ContinuityAsStated ==
  \A n \in DOMAIN lineups :
    n + 1 \in DOMAIN lineups =>
      \A w \in Labels(WorkingSetOf(lineups[n + 1])) :
        \A P \in Labels(SlotListOf(lineups[n + 1])) :
          ContinuityCase(n, w, P) => Holds(lineups[n + 1], w, P)

\* C5 Continuity preference, amended: the worker of the continuity case holds
\* P in the second lineup when P is the first slot the second interval fills,
\* no other unflagged worker of the second interval comes from a label that
\* continues at P, and Pass A has no cause to exchange the worker at P with
\* another unflagged worker at another slot of the list.
C5_Continuity ==
  \A n \in DOMAIN lineups :
    n + 1 \in DOMAIN lineups =>
      \A w \in Labels(WorkingSetOf(lineups[n + 1])) :
        \A P \in Labels(SlotListOf(lineups[n + 1])) :
          ( /\ ContinuityCase(n, w, P)
            /\ FillOrderOf(lineups[n + 1])[1] = P
            /\ \A x \in Competitors(lineups[n + 1], w) :
                 /\ ~ComesFrom(n, x, P)
                 /\ \A S \in Labels(SlotListOf(lineups[n + 1])) \ {P} : ~SwapCause(w, P, x, S) )
            => Holds(lineups[n + 1], w, P)

\* a returned call in which a worker kept the first slot of the fill order
\* against a worker who is also best at it and stands before it in the pool
C5_Witness ==
  /\ pc = "done"
  /\ \E n \in DOMAIN lineups : n + 1 \in DOMAIN lineups /\
       LET W2 == WorkingSetOf(lineups[n + 1]) IN
       \E a, b \in DOMAIN W2 : \E P \in Labels(SlotListOf(lineups[n + 1])) :
         /\ a < b
         /\ ContinuityCase(n, W2[b], P)
         /\ FillOrderOf(lineups[n + 1])[1] = P
         /\ W2[a] \in Competitors(lineups[n + 1], W2[b])
         /\ BaseScore(W2[a], P) >= 10
         /\ \A x \in Competitors(lineups[n + 1], W2[b]) :
              /\ ~ComesFrom(n, x, P)
              /\ \A S \in Labels(SlotListOf(lineups[n + 1])) \ {P} : ~SwapCause(W2[b], P, x, S)
         /\ Holds(lineups[n + 1], W2[b], P)

\* ------------------------------------------------------------------------
\* Break flags
\* ------------------------------------------------------------------------
\* the break rule in whole minutes d of the window
BreakRule(isMinor, d) ==
  IF isMinor
  THEN IF d >= 270 THEN "required" ELSE IF d >= 240 THEN "optional" ELSE NoVal
  ELSE IF d >= 450 THEN "required" ELSE IF d >= 420 THEN "optional" ELSE NoVal

BreakMinutes == timeToMinutes(breakArgs.endTime) - timeToMinutes(breakArgs.startTime)

\* C6 Break thresholds: a minor's flag is required from 270 minutes, optional
\* from 240 to 269, none below; an adult's is required from 450, optional from
\* 420 to 449, none below; needsBreak is true exactly when a type is set.
C6_BreakThresholds ==
  breakFlags # << >> =>
    LET f == breakFlags[1]
        d == BreakMinutes
    IN /\ f.breakType = BreakRule(breakArgs.isMinor, d)
       /\ f.needsBreak = (f.breakType # NoVal)
       /\ (~breakArgs.isMinor /\ d = 444) => f.breakType = "optional"
       /\ (~breakArgs.isMinor /\ d = 456) => f.breakType = "required"
       /\ (breakArgs.isMinor /\ d = 276) => f.breakType = "required"
       /\ (breakArgs.isMinor /\ d = 234) => f.breakType = NoVal /\ ~f.needsBreak

\* a minor's window of 276 minutes was flagged required
C6_Witness ==
  /\ breakFlags # << >>
  /\ breakArgs.isMinor
  /\ BreakMinutes = 276
  /\ breakFlags[1] = [needsBreak |-> TRUE, breakType |-> "required"]

\* C7 Break flags follow the worker: on every assignment of every emitted
\* lineup the break flag is the break rule applied to that worker's own shift
\* window and own isMinor value.
C7_BreakFollowsWorker ==
  \A n \in DOMAIN lineups :
    \A k \in DOMAIN lineups[n].assignments :
      LET a == lineups[n].assignments[k]
          own == calculateBreakFlags(a.employee, a.employee.startTime, a.employee.endTime)
      IN a.needsBreak = own.needsBreak /\ a.breakType = own.breakType

\* ------------------------------------------------------------------------
\* Closing lineup
\* ------------------------------------------------------------------------
\* the workers whose shift window ends when the last emitted lineup ends
ClosingEligible ==
  { k \in DOMAIN enrichedAssignments :
      enrichedAssignments[k].endTime = lineups[Len(lineups)].endTime }

ClosingSlots ==
  { request.dbPositions[k].name : k \in { j \in DOMAIN request.dbPositions :
                                            request.dbPositions[j].requiresClosing } }

\* C8 Closing exclusivity: a closing lineup holds every closing-eligible
\* worker exactly once, on a closing slot or as 'available' with quality
\* 'extra', holds nobody else, and counts the closing-eligible workers.
C8_ClosingExclusivity ==
  closingLineup # NoClosing =>
    LET A == closingLineup.assignments IN
    /\ { A[k].employee.ref : k \in DOMAIN A } = ClosingEligible
    /\ \A r \in ClosingEligible :
         Cardinality({ k \in DOMAIN A : A[k].employee.ref = r }) = 1
    /\ \A k \in DOMAIN A :
         \/ A[k].position \in ClosingSlots /\ A[k].matchQuality # "extra"
         \/ A[k].position = AvailableLabel /\ A[k].matchQuality = "extra"
    /\ closingLineup.peopleCount = Cardinality(ClosingEligible)

\* a closing lineup with a worker on a closing slot and a worker left
\* available, in a call with a worker who is not closing-eligible
C8_Witness ==
  /\ closingLineup # NoClosing
  /\ \E k \in DOMAIN closingLineup.assignments :
       closingLineup.assignments[k].position = AvailableLabel
  /\ \E k \in DOMAIN closingLineup.assignments :
       closingLineup.assignments[k].position \in ClosingSlots
  /\ \E k \in DOMAIN enrichedAssignments : k \notin ClosingEligible

\* C9 Closing lineup absence: a call returns no closing lineup exactly when
\* no lineup was emitted, or no shift window ends when the last emitted lineup
\* ends, or the catalog has no slot that requires closing; otherwise the
\* closing lineup is the one built from the last emitted lineup alone.
C9_ClosingAbsence ==
  pc = "done" =>
    /\ closingLineup = NoClosing
         <=> \/ lineups = << >>
             \/ ClosingSlots = {}
             \/ ClosingEligible = {}
    /\ lineups # << >> =>
         closingLineup = generateClosingLineup(<< lineups[Len(lineups)] >>, enrichedAssignments,
                                               request.dbPositions)

\* a call that emitted a lineup and returned no closing lineup although the
\* catalog has closing slots: nobody's window ends when the last lineup ends
C9_Witness ==
  /\ pc = "done"
  /\ lineups # << >>
  /\ ClosingSlots # {}
  /\ closingLineup = NoClosing

\* ------------------------------------------------------------------------
\* Role flags
\* ------------------------------------------------------------------------
\* the label and quality an assignment must carry for its worker's flags
RoleFixed(a) ==
  IF a.employee.isShiftLead = TRUE
  THEN a.position = LeadLabel /\ a.matchQuality = "best"
  ELSE IF a.employee.isBooster = TRUE
  THEN a.position = BoosterLabel /\ a.matchQuality = "best"
  ELSE IF a.employee.isInTraining = TRUE
  THEN a.position = TrainingLabel /\ a.matchQuality = "training"
  ELSE a.position \notin RoleLabels

\* C10 Role-flag workers are fixed: in every emitted lineup, and in the
\* assignments both optimizer passes work on, a lead carries 'lead (floating)'
\* with quality best, otherwise a booster 'booster (floating)' with quality
\* best, otherwise a trainee 'in training' with quality training, and no
\* unflagged worker carries one of these labels.
C10_RoleFixed ==
  /\ \A n \in DOMAIN lineups : \A k \in DOMAIN lineups[n].assignments :
       RoleFixed(lineups[n].assignments[k])
  /\ pc \in {"passA", "passB"} => \A k \in DOMAIN assignments : RoleFixed(assignments[k])

\* a returned call with a lineup holding a worker flagged lead and booster as
\* lead, next to a worker on a slot
C10_Witness ==
  /\ pc = "done"
  /\ \E n \in DOMAIN lineups :
       LET A == lineups[n].assignments IN
       /\ \E k \in DOMAIN A : /\ A[k].employee.isShiftLead /\ A[k].employee.isBooster
                              /\ A[k].position = LeadLabel
       /\ \E k \in DOMAIN A : A[k].position \notin FixedLabels

\* ------------------------------------------------------------------------
\* Candidate intervals
\* ------------------------------------------------------------------------
Candidates == 1..(Len(changePoints) - 1)

\* the lineups emitted for the candidate interval that starts at changePoints[k]
LineupsOf(k) ==
  { n \in DOMAIN lineups : lineups[n].startTime = minutesToTime(changePoints[k]) }

PeriodOf(k) == getShiftPeriod(minutesToTime(changePoints[k]))

WorkingAt(k) == getWorkingEmployees(enrichedAssignments, changePoints[k])

\* the slot list of candidate k after period filtering and marker dropping
ResolvedSlotsOf(k) ==
  filteredPositions(getPositionsForPeriod(request.dbPositions, PeriodOf(k)))

\* C11 Skippable intervals: a candidate interval yields a lineup exactly when
\* its start is classified into a shift period, its working set is not empty
\* and its slot list, after period filtering and after dropping marker-only
\* slots, is not empty.
C11_SkippableIntervals ==
  pc = "done" =>
    \A k \in Candidates :
      LineupsOf(k) # {}
        <=> /\ PeriodOf(k) # NoVal
            /\ Len(WorkingAt(k)) > 0
            /\ Len(ResolvedSlotsOf(k)) > 0

\* ------------------------------------------------------------------------
\* Missing catalog
\* ------------------------------------------------------------------------
\* the request has an interval with a shift period and a non-empty working set
HasStaffedInterval(req) ==
  LET enriched == enrichedAssignmentsOf(req.shiftAssignments, req.employees)
      points == getChangePoints(enriched)
  IN \E k \in 1..(Len(points) - 1) :
       /\ getShiftPeriod(minutesToTime(points[k])) # NoVal
       /\ Len(getWorkingEmployees(enriched, points[k])) > 0

ReturnedBy(call) == [lineups |-> call.lineups, closingLineup |-> call.closingLineup]

\* C12 Missing catalog is signaled: a call without a catalog and with a
\* staffed, classified interval returns a value that differs from the value of
\* a call with a catalog and no staffed interval, and holds no lineup.
C12_MissingCatalogSignaled ==
  \A a, b \in DOMAIN history :
    ( /\ Len(history[a].request.dbPositions) = 0
      /\ HasStaffedInterval(history[a].request)
      /\ Len(history[b].request.dbPositions) > 0
      /\ ~HasStaffedInterval(history[b].request) )
      => /\ ReturnedBy(history[a]) # ReturnedBy(history[b])
         /\ history[a].lineups = << >>

\* ------------------------------------------------------------------------
\* The six-worker scenario
\* ------------------------------------------------------------------------
ListsEverySlot(e) == ScenarioAll \subseteq (e.positions \cup e.bestPositions)

\* C13 Concrete scenario: six adults 10:00-18:00 and six slots for all periods
\* give exactly one lineup, 10:00 to 18:00, with six assignments, one on each
\* of the six positions, nobody extra, extraPeople 0, and only best or capable
\* qualities when every worker lists every one of the six positions; the
\* interval is never skipped.
C13_Scenario ==
  /\ InLoop => ~Skipped
  /\ pc = "done" =>
       /\ Len(lineups) = 1
       /\ lineups[1].startTime = <<10, 0>>
       /\ lineups[1].endTime = <<18, 0>>
       /\ lineups[1].peopleCount = 6
       /\ lineups[1].extraPeople = 0
       /\ LET A == lineups[1].assignments IN
          /\ Len(A) = 6
          /\ \A p \in ScenarioAll :
               Cardinality({ k \in DOMAIN A : A[k].position = << p >> }) = 1
          /\ \A k \in DOMAIN A : A[k].position # ExtraLabel /\ A[k].matchQuality # "extra"
          /\ (\A k \in DOMAIN A : ListsEverySlot(A[k].employee))
               => \A k \in DOMAIN A : A[k].matchQuality \in {"best", "capable"}

\* the scenario returned with every worker listing every position, after a
\* swap of the optimizer, holding a best and a capable assignment
C13_Witness ==
  /\ pc = "done"
  /\ Len(request.shiftAssignments) = 6
  /\ swapLog # << >>
  /\ \A k \in DOMAIN lineups[1].assignments : ListsEverySlot(lineups[1].assignments[k].employee)
  /\ \E k \in DOMAIN lineups[1].assignments : lineups[1].assignments[k].matchQuality = "best"
  /\ \E k \in DOMAIN lineups[1].assignments : lineups[1].assignments[k].matchQuality = "capable"

\* ------------------------------------------------------------------------
\* Interval partition
\* ------------------------------------------------------------------------
StartOf(k) == timeToMinutes(enrichedAssignments[k].startTime)

EndOf(k) == timeToMinutes(enrichedAssignments[k].endTime)

\* window k is in the working set of candidate interval j
WorksIn(k, j) == \E x \in Labels(WorkingAt(j)) : x.ref = k

\* C14 Interval partition: the change points are the distinct start and end
\* marks in ascending order, so the candidate intervals are contiguous, do not
\* overlap and cover every minute from the first mark to the last exactly
\* once; a window holds a minute exactly when it is in the working set of the
\* candidate interval holding that minute; every worker of an interval
\* started by its start and ends no earlier than its end.
C14_IntervalPartition ==
  LET cp == changePoints
      marks == { StartOf(k) : k \in DOMAIN enrichedAssignments }
               \cup { EndOf(k) : k \in DOMAIN enrichedAssignments }
  IN /\ { cp[j] : j \in DOMAIN cp } = marks
     /\ \A j \in Candidates : cp[j] < cp[j + 1]
     /\ \A m \in SetMin(marks)..(SetMax(marks) - 1) :
          /\ Cardinality({ j \in Candidates : cp[j] <= m /\ m < cp[j + 1] }) = 1
          /\ \A k \in DOMAIN enrichedAssignments :
               (StartOf(k) <= m /\ m < EndOf(k))
                 <=> \E j \in Candidates : cp[j] <= m /\ m < cp[j + 1] /\ WorksIn(k, j)
     /\ \A j \in Candidates : \A k \in DOMAIN enrichedAssignments :
          WorksIn(k, j) => StartOf(k) <= cp[j] /\ cp[j + 1] <= EndOf(k)

\* the loop went over two candidate intervals, with a window over both of
\* them and a window over the second only
C14_Witness ==
  /\ pc = "done"
  /\ i = Len(changePoints)
  /\ Len(changePoints) = 3
  /\ \E k \in DOMAIN enrichedAssignments : WorksIn(k, 1) /\ WorksIn(k, 2)
  /\ \E k \in DOMAIN enrichedAssignments : ~WorksIn(k, 1) /\ WorksIn(k, 2)

\* ------------------------------------------------------------------------
\* Shift periods
\* ------------------------------------------------------------------------
\* the half-open minute ranges of the periods
PeriodRanges ==
  [morning |-> <<360, 630>>, lunch |-> <<630, 840>>, midday |-> <<840, 1020>>,
   dinner |-> <<1020, 1200>>, lateNight |-> <<1200, 1320>>]

PeriodsHolding(m) ==
  { p \in DOMAIN PeriodRanges : PeriodRanges[p][1] <= m /\ m < PeriodRanges[p][2] }

\* C15 Shift-period classification: the shift period of every emitted lineup
\* is the one period whose half-open range holds the lineup's start minute, a
\* boundary minute belongs to the later period, no lineup starts before 360 or
\* at or after 1320, and the lineups come in strictly increasing start order.
C15_ShiftPeriods ==
  /\ \A n \in DOMAIN lineups :
       LET m == timeToMinutes(lineups[n].startTime) IN
       /\ m >= 360 /\ m < 1320
       /\ PeriodsHolding(m) = { lineups[n].shiftPeriod }
       /\ m = 630 => lineups[n].shiftPeriod = "lunch"
       /\ m = 1200 => lineups[n].shiftPeriod = "lateNight"
  /\ \A n \in DOMAIN lineups :
       n + 1 \in DOMAIN lineups
         => timeToMinutes(lineups[n].startTime) < timeToMinutes(lineups[n + 1].startTime)

\* a returned call whose first interval, from 359, gave no lineup, and whose
\* lineups start at 630 (lunch) and at 1200 (lateNight)
C15_Witness ==
  /\ pc = "done"
  /\ changePoints[1] = 359
  /\ Len(lineups) = 2
  /\ lineups[1].startTime = minutesToTime(630) /\ lineups[1].shiftPeriod = "lunch"
  /\ lineups[2].startTime = minutesToTime(1200) /\ lineups[2].shiftPeriod = "lateNight"

\* ------------------------------------------------------------------------
\* Position Resolver
\* ------------------------------------------------------------------------
\* the catalog positions of the slots that apply to a period
AppliesTo(slot, period) ==
  \/ slot.timePeriods = NoPeriods
  \/ "all" \in slot.timePeriods
  \/ period \in slot.timePeriods

EffectivePriority(slot) == IF slot.priority = 0 THEN 99 ELSE slot.priority

CatalogIndex(cat, name) == CHOOSE k \in DOMAIN cat : cat[k].name = name

\* C16 Position Resolver: the resolved list holds exactly the catalog slots
\* whose timePeriods contain 'all' or the target period (a slot without
\* timePeriods counts as 'all'), in ascending priority with an unset priority
\* taken as 99 and equal priorities in catalog order, and the catalog passed
\* in is not reordered.
C16_Resolver ==
  resolved # << >> =>
    LET cat == resolverArgs.dbPositions
        out == resolved[1].positions
        kept == { k \in DOMAIN cat : AppliesTo(cat[k], resolverArgs.shiftPeriod) }
    IN /\ Len(out) = Cardinality(kept)
       /\ { out[j] : j \in DOMAIN out } = { cat[k].name : k \in kept }
       /\ \A j \in DOMAIN out : \A l \in DOMAIN out :
            j < l =>
              LET a == CatalogIndex(cat, out[j])
                  b == CatalogIndex(cat, out[l])
              IN \/ EffectivePriority(cat[a]) < EffectivePriority(cat[b])
                 \/ EffectivePriority(cat[a]) = EffectivePriority(cat[b]) /\ a < b
       /\ resolved[1].dbPositions = cat

\* a call for the morning on three slots: the first without timePeriods and
\* without priority, the second with priority 99, the third for other periods
\* and of priority 1; the first two are resolved, in catalog order
C16_Witness ==
  /\ resolved # << >>
  /\ resolverArgs.shiftPeriod = "morning"
  /\ Len(resolverArgs.dbPositions) = 3
  /\ resolverArgs.dbPositions[1].timePeriods = NoPeriods
  /\ resolverArgs.dbPositions[1].priority = 0
  /\ resolverArgs.dbPositions[2].priority = 99
  /\ resolverArgs.dbPositions[3].priority = 1
  /\ resolverArgs.dbPositions[3].timePeriods = {"lunch", "dinner"}
  /\ resolved[1].positions = << << "primary" >>, << "secondary" >> >>

\* ------------------------------------------------------------------------
\* Display order
\* ------------------------------------------------------------------------
DisplayGroup(position) ==
  IF position = LeadLabel THEN 1
  ELSE IF position = BoosterLabel THEN 2
  ELSE IF position = TrainingLabel THEN 3
  ELSE IF position = ExtraLabel THEN 5
  ELSE 4

\* slot a is not after slot b in the catalog priority order
SlotNotAfter(cat, a, b) ==
  LET ka == CatalogIndex(cat, a)
      kb == CatalogIndex(cat, b)
  IN \/ EffectivePriority(cat[ka]) < EffectivePriority(cat[kb])
     \/ EffectivePriority(cat[ka]) = EffectivePriority(cat[kb]) /\ ka <= kb

\* C17 Display ordering: in every lineup the leads come first, then the
\* boosters, then the trainees, then the slot assignments in ascending catalog
\* priority (ties in catalog order), then the extras, whatever the order of the
\* greedy fill and the swaps of the passes.
C17_DisplayOrder ==
  \A n \in DOMAIN lineups :
    LET A == lineups[n].assignments IN
    \A j \in DOMAIN A : \A l \in DOMAIN A :
      j < l =>
        \/ DisplayGroup(A[j].position) < DisplayGroup(A[l].position)
        \/ /\ DisplayGroup(A[j].position) = DisplayGroup(A[l].position)
           /\ DisplayGroup(A[j].position) = 4
                => SlotNotAfter(request.dbPositions, A[j].position, A[l].position)

\* a returned call with a swap and a lineup of two slots that the greedy fill
\* visited in the other order
C17_Witness ==
  /\ pc = "done"
  /\ swapLog # << >>
  /\ \E n \in DOMAIN lineups :
       /\ Len(SlotListOf(lineups[n])) = 2
       /\ FillOrderOf(lineups[n]) # SlotListOf(lineups[n])
       /\ Len(lineups[n].assignments) = 2
       /\ \A k \in DOMAIN lineups[n].assignments :
            lineups[n].assignments[k].position \notin FixedLabels
       /\ \E k \in DOMAIN swapLog : swapLog[k].i = n

\* ------------------------------------------------------------------------
\* Previous positions
\* ------------------------------------------------------------------------
KeysOf(lineup) ==
  { EmpKey(lineup.assignments[a].employee) : a \in DOMAIN lineup.assignments }

LabelsOf(lineup, key) ==
  { lineup.assignments[a].position :
      a \in { b \in DOMAIN lineup.assignments : EmpKey(lineup.assignments[b].employee) = key } }

\* C18 Previous-position threading: the map of previous positions is empty
\* until a lineup is emitted and is then the mapping from the workers of the
\* lineup emitted last to their final labels, skipped intervals leaving it as
\* it is; a worker who is not in that lineup has no entry and gets no
\* continuity bonus at any slot, also after holding a slot in an older lineup.
C18_PreviousThreading ==
  /\ lineups = << >> => DOMAIN previousAssignments = {}
  /\ lineups # << >> =>
       LET last == lineups[Len(lineups)] IN
       /\ DOMAIN previousAssignments = KeysOf(last)
       /\ \A key \in KeysOf(last) : LabelsOf(last, key) = { previousAssignments[key] }
       /\ \A k \in DOMAIN enrichedAssignments :
            LET w == enrichedAssignments[k] IN
            EmpKey(w) \notin KeysOf(last) =>
              /\ PrevPositionOf(previousAssignments, w) = NoVal
              /\ \A s \in DOMAIN request.dbPositions :
                   ContinuityBonus(request.dbPositions[s].name,
                                   PrevPositionOf(previousAssignments, w)) = 0

\* the greedy fill of a third lineup is under way for a worker who held a slot
\* in the first lineup and is not in the second
C18_Witness ==
  /\ pc = "greedy"
  /\ Len(lineups) = 2
  /\ \E k \in DOMAIN unassigned :
       /\ EmpKey(unassigned[k]) \in KeysOf(lineups[1])
       /\ EmpKey(unassigned[k]) \notin KeysOf(lineups[2])
       /\ LabelsOf(lineups[1], EmpKey(unassigned[k])) \cap FixedLabels = {}
       /\ EmpKey(unassigned[k]) \notin DOMAIN previousAssignments

\* ------------------------------------------------------------------------
\* Greedy fill
\* ------------------------------------------------------------------------
\* C19 Greedy fill order equals resolver order: the greedy fill visits the
\* slots of an interval in the order of the resolver's list, ascending catalog
\* priority with ties in catalog order, also for slots with a '/'-joined name
\* and for names of the default priority table.
C19_FillOrderIsResolverOrder ==
  pc = "greedy" => toFill = filteredPositions(positionsToUse)

\* the score a slot gives a pooled worker in the greedy fill: checklist boost
\* on, continuity bonus on
BoostedScore(w, position, prev) ==
  BaseScore(w, position) + ChecklistBonus(w, position)
  + ContinuityBonus(position, PrevPositionOf(prev, w))

\* the place in the pool of the worker a slot is to take
PickOf(pool, position, prev) ==
  LET best == SetMax({ BoostedScore(pool[j], position, prev) : j \in DOMAIN pool })
  IN IF best > 0
     THEN SetMin({ j \in DOMAIN pool : BoostedScore(pool[j], position, prev) = best })
     ELSE 1

\* C20 Greedy selection rule: a slot visited with a non-empty pool takes the
\* earliest worker of the pool among those with the maximum boosted score when
\* that maximum is above 0 and the first worker of the pool, as a fallback,
\* otherwise; the visit takes exactly that worker out of the pool, and a slot
\* is left without a worker only when the pool is empty.
C20_GreedySelection ==
  [][ (pc = "greedy" /\ pc' = "greedy" /\ slotIdx' = slotIdx + 1) =>
        /\ unassigned # << >> =>
             LET P == toFill[slotIdx]
                 pick == PickOf(unassigned, P, previousAssignments)
                 best == SetMax({ BoostedScore(unassigned[j], P, previousAssignments) :
                                    j \in DOMAIN unassigned })
             IN /\ Len(assignments') = Len(assignments) + 1
                /\ \A k \in DOMAIN assignments : assignments'[k] = assignments[k]
                /\ assignments'[Len(assignments')].employee = unassigned[pick]
                /\ assignments'[Len(assignments')].position = P
                /\ best <= 0 => assignments'[Len(assignments')].matchQuality = "fallback"
                /\ Len(unassigned') = Len(unassigned) - 1
                /\ \A j \in DOMAIN unassigned' :
                     unassigned'[j] = IF j < pick THEN unassigned[j] ELSE unassigned[j + 1]
        /\ unassigned = << >> => assignments' = assignments /\ unassigned' = << >>
        /\ assignments' = assignments => unassigned = << >>
    ]_vars

\* the first slot of an interval has been visited: of three pooled workers the
\* second and the third had the best score, above that of the first, and the
\* second was taken
C20_Witness ==
  /\ pc = "greedy"
  /\ slotIdx = 2
  /\ LET pool == RoleRemoval(workingEmployees).unassigned
         P == toFill[1]
     IN /\ Len(pool) = 3
        /\ BoostedScore(pool[1], P, previousAssignments)
             < BoostedScore(pool[2], P, previousAssignments)
        /\ BoostedScore(pool[2], P, previousAssignments)
             = BoostedScore(pool[3], P, previousAssignments)
        /\ assignments # << >>
        /\ assignments[Len(assignments)].employee = pool[2]
        /\ unassigned = << pool[1], pool[3] >>

\* ------------------------------------------------------------------------
\* Extras
\* ------------------------------------------------------------------------
Ordinary(A) == { k \in DOMAIN A : A[k].position \notin FixedLabels }

Extras(A) == { k \in DOMAIN A : A[k].position = ExtraLabel }

Min(a, b) == IF a <= b THEN a ELSE b

\* the assignments A of an interval with the fill list fill and the working
\* set W: extras only when every slot holds a worker, as many slot assignments
\* as there are slots or unflagged workers, one worker a slot at most, and
\* quality 'extra' on the extras alone
ExtrasRule(A, fill, W) ==
  /\ Extras(A) # {} => \A s \in DOMAIN fill : \E k \in DOMAIN A : A[k].position = fill[s]
  /\ Cardinality(Ordinary(A))
       = Min(Len(fill), Cardinality({ k \in DOMAIN W : ~HasRole(W[k]) }))
  /\ \A k \in Ordinary(A) : A[k].position \in Labels(fill)
  /\ \A s \in DOMAIN fill : Cardinality({ k \in DOMAIN A : A[k].position = fill[s] }) <= 1
  /\ \A k \in DOMAIN A : A[k].matchQuality = "extra" <=> A[k].position = ExtraLabel

\* C21 Extras only after all slots are filled: every lineup, and the
\* assignments of an interval all through the two passes, keep the rule of the
\* extras.
C21_ExtrasAfterSlots ==
  /\ \A n \in DOMAIN lineups :
       ExtrasRule(lineups[n].assignments, SlotListOf(lineups[n]), WorkingSetOf(lineups[n]))
  /\ pc \in {"passA", "passB"} =>
       ExtrasRule(assignments, filteredPositions(positionsToUse), workingEmployees)

\* a returned call with a Pass B swap and a lineup of a flagged worker, a slot
\* assignment and an extra
C21_Witness ==
  /\ pc = "done"
  /\ SwappedIn("B")
  /\ \E n \in DOMAIN lineups :
       LET A == lineups[n].assignments IN
       /\ Extras(A) # {}
       /\ Ordinary(A) # {}
       /\ \E k \in DOMAIN A : A[k].position \in RoleLabels

\* ------------------------------------------------------------------------
\* Pass A
\* ------------------------------------------------------------------------
\* the number of slot assignments whose unboosted score is 10 or more
BestCountOf(A) ==
  Cardinality({ k \in Ordinary(A) : BaseScore(A[k].employee, A[k].position) >= 10 })

\* the sum of the unboosted scores of the slot assignments
ScoreSumOf(A) ==
  LET sum[k \in 0..Len(A)] ==
        IF k = 0 THEN 0
        ELSE sum[k - 1] + (IF k \in Ordinary(A)
                           THEN BaseScore(A[k].employee, A[k].position) ELSE 0)
  IN sum[Len(A)]

\* B is A with the workers of two slot assignments exchanged
ExchangeOfTwoSlots(A, B) ==
  /\ Len(B) = Len(A)
  /\ \A k \in DOMAIN A : B[k].position = A[k].position
  /\ \E a \in Ordinary(A) : \E b \in Ordinary(A) :
       /\ a # b
       /\ B[a].employee = A[b].employee
       /\ B[b].employee = A[a].employee
       /\ \A k \in DOMAIN A : k # a /\ k # b => B[k] = A[k]

\* C22 Pass A is monotone: a Pass A swap exchanges the workers of two slot
\* assignments and changes nothing else; it lowers neither the number of slot
\* assignments of unboosted score 10 or more nor the sum of the unboosted
\* scores of the slot assignments, and raises one of the two.
C22_PassAMonotone ==
  [][ (pc = "passA" /\ pc' = "passA" /\ assignments' # assignments) =>
        /\ ExchangeOfTwoSlots(assignments, assignments')
        /\ BestCountOf(assignments') >= BestCountOf(assignments)
        /\ ScoreSumOf(assignments') >= ScoreSumOf(assignments)
        /\ \/ BestCountOf(assignments') > BestCountOf(assignments)
           \/ ScoreSumOf(assignments') > ScoreSumOf(assignments)
    ]_vars

\* Pass A has just exchanged the workers of the two slots of an interval that
\* has an extra as well
C22_Witness ==
  /\ pc = "passA"
  /\ improved
  /\ iterations >= 1
  /\ swapLog # << >>
  /\ swapLog[Len(swapLog)].i = i
  /\ swapLog[Len(swapLog)].pass = "A"
  /\ Cardinality(Ordinary(assignments)) = 2
  /\ Extras(assignments) # {}

\* the pair of slot assignments a, b would gain from an exchange: more members
\* of unboosted score 10 or more, or as many and a larger sum
WouldGain(A, a, b) ==
  LET cur == << BaseScore(A[a].employee, A[a].position), BaseScore(A[b].employee, A[b].position) >>
      swp == << BaseScore(A[b].employee, A[a].position), BaseScore(A[a].employee, A[b].position) >>
      best(x) == Cardinality({ k \in 1..2 : x[k] >= 10 })
  IN \/ best(swp) > best(cur)
     \/ best(swp) = best(cur) /\ swp[1] + swp[2] > cur[1] + cur[2]

\* C23 Pass A ends on a fixpoint: when the Pass A loop exits it has counted
\* fewer than maxIterations iterations, and no pair of slot assignments would
\* gain from an exchange.
C23_PassAFixpoint ==
  (pc = "passA" /\ ~LoopContinues) =>
    /\ iterations < maxIterations
    /\ ~improved
    /\ \A a \in Ordinary(assignments) : \A b \in Ordinary(assignments) :
         a # b => ~WouldGain(assignments, a, b)

\* ------------------------------------------------------------------------
\* Pass B
\* ------------------------------------------------------------------------
\* C24 Pass B fixpoint: no lineup has a slot assignment of a quality other
\* than 'best' together with an extra whose unboosted score at that slot is 10
\* or more.
C24_PassBFixpoint ==
  \A n \in DOMAIN lineups :
    LET A == lineups[n].assignments IN
    \A a \in Ordinary(A) : \A e \in Extras(A) :
      A[a].matchQuality # "best" => BaseScore(A[e].employee, A[a].position) < 10

\* ------------------------------------------------------------------------
\* Closing positions
\* ------------------------------------------------------------------------
\* the label worker r holds in the last lineup, lower-cased ({} when none)
LastLabelsOf(r) ==
  LET A == lineups[Len(lineups)].assignments IN
  { LowerPos(A[k].position) : k \in { j \in DOMAIN A : A[j].employee.ref = r } }

\* the closing slots in the order the closing lineup visits them
ClosingOrder == closingPositionsOf(request.dbPositions)

\* worker r holds slot `slot` in the closing lineup with quality 'best'
ClosesAt(r, slot) ==
  \E k \in DOMAIN closingLineup.assignments :
    /\ closingLineup.assignments[k].employee.ref = r
    /\ closingLineup.assignments[k].position = slot
    /\ closingLineup.assignments[k].matchQuality = "best"

\* the last label of worker r contains the name of slot
LabelContains(r, slot) ==
  \E l \in LastLabelsOf(r) : l = LowerPos(slot) \/ PosIncludes(CurrentPosOf(l), LowerPos(slot))

DistinctKeys ==
  \A a \in DOMAIN enrichedAssignments : \A b \in DOMAIN enrichedAssignments :
    a # b => EmpKey(enrichedAssignments[a]) # EmpKey(enrichedAssignments[b])

BasePositionOf(label) == CurrentPosOf(label)

\* C26 as stated: the +50 is granted exactly when the base position and the
\* slot name match with either one being a substring of the other
C26_BonusEitherDirection ==
  (scored # << >> /\ scoreArgs.prev # << >>) =>
    LET cur == BasePositionOf(scoreArgs.prev)
        slot == LowerPos(scoreArgs.position)
    IN (scored[1].score >= 50) <=> (PosIncludes(cur, slot) \/ PosIncludes(slot, cur))

\* C26 Closing +50 bonus condition, amended: the +50 is granted exactly when
\* the closer has a position in the last lineup and the lower-cased slot name
\* is a substring of (or equal to) the base position; the closing quality is
\* 'best' iff the score is >= 50, 'capable' iff it is in [5,50), 'fallback'
\* otherwise.
C26_ClosingBonus ==
  scored # << >> =>
    LET score == scored[1].score
        quality == scored[1].fill[1].matchQuality
        skill == IF \E p \in scoreArgs.employee.bestPositions :
                      <<Lower(p)>> = LowerPos(scoreArgs.position) THEN 10
                 ELSE IF \E p \in scoreArgs.employee.positions :
                      <<Lower(p)>> = LowerPos(scoreArgs.position) THEN 5 ELSE 0
        bonus == score - skill
    IN /\ bonus \in {0, 50}
       /\ bonus = 50 <=> ( /\ scoreArgs.prev # << >>
                           /\ PosIncludes(BasePositionOf(scoreArgs.prev),
                                          LowerPos(scoreArgs.position)) )
       /\ Len(scored[1].fill) = 1
       /\ quality = "best" <=> score >= 50
       /\ quality = "capable" <=> (score >= 5 /\ score < 50)
       /\ quality = "fallback" <=> score < 5

\* a closer without skills whose last position 'primary/buns' contains the
\* closing slot name 'buns': scored 50 and closing there as 'best'
C26_Witness ==
  /\ scored # << >>
  /\ scoreArgs.prev = <<"primary", "buns">>
  /\ scoreArgs.position = <<"buns">>
  /\ scoreArgs.employee.positions = {}
  /\ scored[1].score = 50
  /\ scored[1].fill[1].matchQuality = "best"

\* the '/'-alternatives of a position string
Alternatives(position) == { position[k] : k \in DOMAIN position }

\* 10 for a best position, else 5 for a capable one, else 0
SkillPoints(employee, alternative) ==
  IF alternative \in employee.bestPositions THEN 10
  ELSE IF alternative \in employee.positions THEN 5 ELSE 0

\* the largest of a non-empty finite set of numbers
Largest(S) == CHOOSE x \in S : \A y \in S : y <= x

\* a label without ' (lead)' / ' (floating)'
WithoutRoleSuffix(label) ==
  CASE label = "lead (floating)" -> "lead"
    [] label = "booster (floating)" -> "booster"
    [] label = "buns (lead)" -> "buns"
    [] OTHER -> label

\* C27 Scoring function: the score is base + checklist + continuity; base is
\* the maximum over the slot's alternatives of 10 / 5 / 0; checklist is 15
\* (first alternative 'buns' or 'machines') or 12 ('secondary2') when the
\* boost is on and the worker holds 'checklist', else 0; continuity is 20
\* when a previous position is given and its first alternative without role
\* suffix is among the slot's alternatives, else 0; with the boost off and no
\* previous position the score is in {0, 5, 10}.
C27_ScoringFunction ==
  scored # << >> =>
    LET e == scoreArgs.employee
        slot == scoreArgs.position
        base == Largest({ SkillPoints(e, a) : a \in Alternatives(slot) })
        holdsChecklist == "checklist" \in (e.positions \cup e.bestPositions)
        checklist == IF scoreArgs.boost /\ holdsChecklist /\ slot[1] \in {"buns", "machines"} THEN 15
                     ELSE IF scoreArgs.boost /\ holdsChecklist /\ slot[1] = "secondary2" THEN 12
                     ELSE 0
        continuity == IF scoreArgs.prev # << >>
                         /\ WithoutRoleSuffix(scoreArgs.prev[1]) \in Alternatives(slot)
                      THEN 20 ELSE 0
    IN /\ scored[1] = base + checklist + continuity
       /\ (~scoreArgs.boost /\ scoreArgs.prev = << >>) => scored[1] \in {0, 5, 10}

\* a worker best at 'buns' and holding 'checklist', scored with the boost on
\* for 'buns' after having been on 'buns (lead)': 10 + 15 + 20
C27_Witness ==
  /\ scored = << 45 >>
  /\ scoreArgs.boost
  /\ scoreArgs.position = <<"buns">>
  /\ scoreArgs.prev = <<"buns (lead)">>
  /\ "buns" \in scoreArgs.employee.bestPositions
  /\ "checklist" \in scoreArgs.employee.positions

\* C28 The optimization pass of backend/services/lineupGenerator.js
\* terminates. Each iteration is a function of the assignments alone, so the
\* pass performs finitely many swaps only if it never comes back to
\* assignments it had: here, a swap is never undone by the swap after it.
C28_BackendPassTerminates ==
  [][ (pc = "passA" /\ improved /\ pc' = "passA" /\ assignments' # assignments)
        => BackendIteration(assignments').assignments # assignments ]_vars

\* the number of assignments of a lineup labelled 'extra/support'
ExtraAssignments(lineup) ==
  Cardinality({ k \in DOMAIN lineup.assignments : lineup.assignments[k].position = ExtraLabel })

\* C29 The extra count matches the extra assignments: in every returned
\* lineup extraPeople is the number of assignments labelled 'extra/support'.
C29_ExtraCountMatches ==
  \A k \in DOMAIN lineups : lineups[k].extraPeople = ExtraAssignments(lineups[k])

\* the same for lineups without a worker on a role label and with as many
\* slots to fill as the resolver returned
C29_ExtraCountMatchesOrdinary ==
  \A k \in DOMAIN lineups :
    ( /\ \A a \in DOMAIN lineups[k].assignments :
           lineups[k].assignments[a].position \notin {LeadLabel, BoosterLabel, TrainingLabel}
      /\ \A slot \in DOMAIN request.dbPositions :
           ~(\A part \in DOMAIN request.dbPositions[slot].name :
                IsMarker(request.dbPositions[slot].name[part])) )
    => lineups[k].extraPeople = ExtraAssignments(lineups[k])

\* minutes of the classified day around the marks and period boundaries the
\* requests use
CoverageMinutes == { 360, 599, 600, 629, 630, 839, 840, 1019, 1020, 1079 }

\* the windows holding minute m
ActiveAt(m) == { k \in DOMAIN enrichedAssignments : StartOf(k) <= m /\ m < EndOf(k) }

\* the catalog has a slot that is not marker-only for a period holding m
HasWorkingSlotAt(m) ==
  \E p \in PeriodsHolding(m) :
    Len(filteredPositions(getPositionsForPeriod(request.dbPositions, p))) > 0

\* the lineups whose interval holds minute m
LineupsHolding(m) ==
  { n \in DOMAIN lineups :
      timeToMinutes(lineups[n].startTime) <= m /\ m < timeToMinutes(lineups[n].endTime) }

\* C30 Emitted lineups cover all classified working time: every minute of
\* [360,1320) at which a window is active and for whose period the catalog
\* has a working slot lies in exactly one emitted lineup, and that lineup
\* holds every worker active at the minute.
C30_LineupsCoverWorkingTime ==
  pc = "done" =>
    \A m \in CoverageMinutes :
      (ActiveAt(m) # {} /\ HasWorkingSlotAt(m)) =>
        /\ Cardinality(LineupsHolding(m)) = 1
        /\ \A n \in LineupsHolding(m) :
             ActiveAt(m) \subseteq
               { lineups[n].assignments[a].employee.ref : a \in DOMAIN lineups[n].assignments }

====
